---- MODULE Spec2Model ----
(***************************************************************************)
(* Provisioning tool servers (Supabase, Netlify, GitHub MCP servers) and   *)
(* their shared retry engine.                                              *)
(*                                                                         *)
(*   - SpecRetry     : withRetry (mcp-servers/shared/retry.ts)             *)
(*   - SpecDispatch  : the CallToolRequestSchema handlers of the three     *)
(*                     servers and the tool handlers they route to,        *)
(*                     await by await: a call is suspended at each of      *)
(*                     its awaits while other requests are answered        *)
(*   - SpecStartup   : a server process from its start: the credential     *)
(*                     check, the connect, then the request handlers       *)
(*   - SpecVault     : SecretVault (mcp-servers/shared/secret-vault.ts)    *)
(*   - SpecPoll      : waitForProjectReady of the Supabase server          *)
(*   - SpecCreate    : one create_project call of the Supabase server,     *)
(*                     with its withRetry calls and its readiness wait     *)
(*   - SpecLaunch    : .devcontainer/auto-launch-claude.sh                 *)
(***************************************************************************)
EXTENDS Integers, Sequences, FiniteSets, TLC

VARIABLES
    \* ---- withRetry (one invocation) ----
    rpc,          \* position: "attempt" (about to await fn()), "body" (fn is
                  \* fetchWithRetrySupport, awaiting response.text()), "waiting"
                  \* (awaiting the backoff timer), "done"
    policy,       \* the destructured options: maxRetries, initialDelayMs, retryOn
    attempt,      \* the loop variable `attempt`
    lastError,    \* the local `lastError`
    timer,        \* the pending setTimeout delay, NoTimer when none is pending
    invocations,  \* how many times fn() was called
    waits,        \* the delays waited so far, in order
    raised,       \* the values fn() raised so far, in order
    outcome,      \* how withRetry settled: none / returned v / threw e
    \* ---- tool dispatch (one server process) ----
    server,       \* which server this process is: supabase, netlify or github
    config,       \* what the server object was constructed with
    inst,         \* the fields of the server object
    lastReq,      \* the call-tool request the handler last worked on: the one
                  \* it last took up or, once one is answered, that one
    lastEnv,      \* the await the answer to that call came from: the frame the
                  \* handler was suspended in and what the awaited promise
                  \* settled with (IdleEnv: answered before any await)
    lastResp,     \* what the request handler gave back for that call
                  \* (NoResponse while it is suspended)
    lastHandler,  \* what the routed handler did in that call: returned
                  \* or threw (and what), whether it issued a vendor request,
                  \* and setCount and errors.length of configureEnvVars
    failedEarlier,\* whether a call before the last one ended in a Failure
                  \* envelope or a rejection
    environment,  \* process.env: the bearer credential variable and SUPABASE_ORG_ID
    phase,        \* the process: "starting", "connecting", "serving", "exited"
    exitCode,     \* the code given to process.exit, Absent while running
    lastList,     \* what the last list-tools request was answered with
    inflight,     \* the calls whose handler is suspended at an await: the
                  \* request and the handler's frame
    \* ---- SecretVault (one instance) ----
    secrets,      \* the Map `secrets`: its entries in insertion order
    encryptionKey,\* the Buffer `encryptionKey`
    isDestroyed,  \* the field `isDestroyed`
    randomDraws,  \* how many times crypto.randomBytes was called
    pending,      \* the resolve calls suspended at `await this.retrieve(...)`,
                  \* in the order they will resume
    lastCall,     \* the last vault call that completed: its arguments, its
                  \* outcome, and the key material its cipher was created with
    \* ---- waitForProjectReady (one invocation) ----
    pollPc,       \* position: "check" (at the loop condition), "fetching"
                  \* (awaiting fetch), "reading" (awaiting response.json()),
                  \* "sleeping" (awaiting setTimeout), "done"
    clock,        \* Date.now()
    startTime,    \* the local `startTime`
    maxWaitTime,  \* the parameter `maxWaitTime`
    polls,        \* how many fetches were issued
    recent,       \* what the last (up to three) fetches gave, oldest first
    pollStart,    \* when the last fetch was issued
    lastPollEnd,  \* when the last fetch before that settled
    pollLog,      \* the console.error lines of the last loop iteration
    pollOutcome,  \* how the function settled: none / returned / threw
    \* --- one create_project call, step by step ---
    cpPc,         \* where createProject is: "validate", "orgs", "create", "wait",
                  \* "keys" (awaiting withRetry or waitForProjectReady),
                  \* "orgs_body", "create_body", "keys_body" (awaiting
                  \* response.json()), "done" ("idle": no call)
    cpTrace,      \* the steps that issued vendor requests, in order
    projects,     \* how many projects the vendor created for this call
    projectId,    \* project.id of the creation body as read, Undefined before
                  \* that and when the body holds none
    keysRead,     \* what await keysResponse.json() settled with
    cpKeys,       \* the locals anonKey and serviceRoleKey
    lastHttp,     \* what the last fetch of the running withRetry settled with
    \* --- auto-launch-claude.sh ---
    flagFile,     \* whether $HOME/.shipme-provisioned exists
    cliInstalled, \* whether `command -v claude` finds the CLI
    installWorks, \* whether npm install -g would succeed
    apiKeySet,    \* whether ANTHROPIC_API_KEY is non-empty once the environment is sourced
    attachPc,     \* each attachment's position in the script
    launches      \* how many times `claude -p` was started

retryVars == <<rpc, policy, attempt, lastError, timer, invocations, waits, raised, outcome>>
dispatchVars == <<server, config, inst, lastReq, lastEnv, lastResp, lastHandler,
                  failedEarlier, environment, phase, exitCode, lastList, inflight>>
vaultVars == <<secrets, encryptionKey, isDestroyed, randomDraws, pending, lastCall>>
pollVars == <<pollPc, clock, startTime, maxWaitTime, polls, recent, pollStart, lastPollEnd,
              pollLog, pollOutcome>>
createVars == <<cpPc, cpTrace, projects, projectId, keysRead, cpKeys, lastHttp>>
launchVars == <<flagFile, cliInstalled, installWorks, apiKeySet, attachPc, launches>>
vars == <<retryVars, dispatchVars, vaultVars, pollVars, createVars, launchVars>>

(***************************************************************************)
(* Bounds                                                                  *)
(***************************************************************************)
MaxRetriesBound == 2     \* largest explicit maxRetries option drawn
MaxEnvVars == 2          \* most entries of an env_vars argument
MaxDraws == 4            \* most crypto.randomBytes calls on one vault (the key and the IVs)
MaxPending == 1          \* most resolve calls suspended at their await at once
MaxInflight == 1         \* most tool calls suspended at an await at once
MaxAttachments == 3      \* most terminal attachments to one environment

(***************************************************************************)
(* JavaScript values                                                       *)
(***************************************************************************)
\* A numeric property that is not there (reads as undefined).
Absent == 0 - 1
\* A string property or variable that is undefined.
Undefined == "<undefined>"

\* !v for a numeric-or-undefined v: undefined and 0 are falsy.
Falsy(v) == v = Absent \/ v = 0

\* a || b
OrElse(a, b) == IF Falsy(a) THEN b ELSE a

RECURSIVE Pow2(_)
\* Math.pow(2, n) for n >= 0
Pow2(n) == IF n <= 0 THEN 1 ELSE 2 * Pow2(n - 1)

(***************************************************************************)
(* Failures: the values an operation can raise (throw / reject with)       *)
(***************************************************************************)
\* An object raised as a failure: its class name ("Object" for a plain object
\* that is no Error), its message and the two properties withRetry reads.
\* text is the content of a raised string (Undefined for every other value).
ErrObj(n, m, st, sc) ==
    [type |-> "object", name |-> n, message |-> m, status |-> st, statusCode |-> sc,
     text |-> Undefined]

\* new RetryableError(message, status)            (retry.ts 6-12)
RetryableError(m, st) == ErrObj("RetryableError", m, st, Absent)

\* The values null and undefined, raised as they are.
JSNull == [type |-> "null", name |-> "", message |-> Undefined,
           status |-> Absent, statusCode |-> Absent, text |-> Undefined]
JSUndefined == [type |-> "undefined", name |-> "", message |-> Undefined,
                status |-> Absent, statusCode |-> Absent, text |-> Undefined]
\* A string raised as it is: reading .message of it gives undefined.
JSString(t) == [type |-> "string", name |-> "", message |-> Undefined,
                status |-> Absent, statusCode |-> Absent, text |-> t]
\* new Error(message)
Error(m) == ErrObj("Error", m, Absent, Absent)
\* a TypeError of the runtime
TypeError(m) == ErrObj("TypeError", m, Absent, Absent)
\* error instanceof Error
InstanceofError(v) == v.type = "object" /\ v.name # "Object"

\* The TypeError the runtime raises when a property of null/undefined is read.
PropertyReadTypeError(v, prop) ==
    [type |-> "object", name |-> "TypeError",
     message |-> IF v.type = "null"
                 THEN "Cannot read properties of null (reading '" \o prop \o "')"
                 ELSE "Cannot read properties of undefined (reading '" \o prop \o "')",
     status |-> Absent, statusCode |-> Absent, text |-> Undefined]

\* Whether reading a property of v raises.
ReadRaises(v) == v.type \in {"null", "undefined"}

\* What the wrapped operation may raise in one attempt.
OpFailures ==
    { RetryableError("rate limited", 429),
      RetryableError("unavailable", 503),
      RetryableError("not found", 404),
      RetryableError("status zero", 0),
      ErrObj("TypeError", "fetch failed", Absent, Absent),
      ErrObj("HttpError", "gateway timeout", Absent, 504),
      ErrObj("HttpError", "bad request", 0, 400),
      JSNull,
      JSUndefined }

\* What the wrapped operation may return.
OpValues == {"v1", "v2"}

(***************************************************************************)
(* withRetry                                         (retry.ts 14-51)      *)
(***************************************************************************)
DefaultMaxRetries == 3
DefaultInitialDelayMs == 1000
DefaultRetryOn == {429, 502, 503, 504}

OptionKeys == {"maxRetries", "initialDelayMs", "retryOn"}

\* The options objects a caller may pass: any subset of the keys given.
\* A key that is not given holds a filler that is never read.
Options ==
    { o \in [given : SUBSET OptionKeys,
             maxRetries : (0 - 1) .. MaxRetriesBound,
             initialDelayMs : {0, 100},
             retryOn : {{}, {404}, {429, 503}}] :
        /\ ("maxRetries" \notin o.given => o.maxRetries = 0)
        /\ ("initialDelayMs" \notin o.given => o.initialDelayMs = 0)
        /\ ("retryOn" \notin o.given => o.retryOn = {}) }

\* const { maxRetries = 3, initialDelayMs = 1000, retryOn = [...] } = options
Destructure(o) ==
    [maxRetries |-> IF "maxRetries" \in o.given THEN o.maxRetries ELSE DefaultMaxRetries,
     initialDelayMs |-> IF "initialDelayMs" \in o.given THEN o.initialDelayMs
                        ELSE DefaultInitialDelayMs,
     retryOn |-> IF "retryOn" \in o.given THEN o.retryOn ELSE DefaultRetryOn]

\* let lastError = new Error('No attempts made')
NoAttemptsError == Error("No attempts made")

NoTimer == Absent
NoOutcome == [kind |-> "none", value |-> Undefined, error |-> JSUndefined]
Returned(v) == [kind |-> "returned", value |-> v, error |-> JSUndefined]
Threw(e) == [kind |-> "threw", value |-> Undefined, error |-> e]

\* attempt <= maxRetries, the loop condition
LoopContinues(pol, att) == att <= pol.maxRetries

\* const status = err.status || err.statusCode
ReadStatus(err) == OrElse(err.status, err.statusCode)

\* Variants of the retry decision, each wrong in one way:
\* the attempt bound off by one,
ShouldRetry_OffByOne(pol, att, err) ==
    /\ att <= pol.maxRetries
    /\ (Falsy(ReadStatus(err)) \/ ReadStatus(err) \in pol.retryOn)
\* the retryable set not consulted,
ShouldRetry_AnyStatus(pol, att, err) == att < pol.maxRetries
\* a failure without a status not taken as transient.
ShouldRetry_StatusOnly(pol, att, err) ==
    /\ att < pol.maxRetries
    /\ ReadStatus(err) \in pol.retryOn

\* attempt < maxRetries && (!status || retryOn.includes(status))
ShouldRetry(pol, att, err) ==
    /\ att < pol.maxRetries
    /\ (Falsy(ReadStatus(err)) \/ ReadStatus(err) \in pol.retryOn)

\* A variant of the delay: linear instead of exponential.
BackoffDelay_Linear(pol, att) == pol.initialDelayMs * (att + 1)

\* const delay = initialDelayMs * Math.pow(2, attempt)
BackoffDelay(pol, att) == pol.initialDelayMs * Pow2(att)

\* What the catch block rethrows for err: err itself; reading err.status
\* of null/undefined raises a TypeError in its place.
CatchThrows(err) == IF ReadRaises(err) THEN PropertyReadTypeError(err, "status") ELSE err

RetryInit ==
    /\ \E o \in Options : policy = Destructure(o)
    /\ rpc = "attempt"
    /\ attempt = 0
    /\ lastError = NoAttemptsError
    /\ timer = NoTimer
    /\ invocations = 0
    /\ waits = <<>>
    /\ raised = <<>>
    /\ outcome = NoOutcome

\* return await fn()  -- the attempt succeeds
AttemptReturns ==
    /\ rpc = "attempt"
    /\ LoopContinues(policy, attempt)
    /\ \E v \in OpValues :
        /\ invocations' = invocations + 1
        /\ outcome' = Returned(v)
        /\ rpc' = "done"
    /\ UNCHANGED <<policy, attempt, lastError, timer, waits, raised>>
    /\ UNCHANGED dispatchVars
    /\ UNCHANGED vaultVars
    /\ UNCHANGED pollVars
    /\ UNCHANGED <<createVars, launchVars>>

\* await fn() raises err: the catch block
AttemptRaises ==
    /\ rpc = "attempt"
    /\ LoopContinues(policy, attempt)
    /\ \E err \in OpFailures :
        /\ invocations' = invocations + 1
        /\ raised' = Append(raised, err)
        /\ lastError' = err
        /\ IF ~ReadRaises(err) /\ ShouldRetry(policy, attempt, err)
           THEN /\ timer' = BackoffDelay(policy, attempt)
                /\ rpc' = "waiting"
                /\ UNCHANGED outcome
           ELSE /\ outcome' = Threw(CatchThrows(err))
                /\ rpc' = "done"
                /\ UNCHANGED timer
    /\ UNCHANGED <<policy, attempt, waits>>
    /\ UNCHANGED dispatchVars
    /\ UNCHANGED vaultVars
    /\ UNCHANGED pollVars
    /\ UNCHANGED <<createVars, launchVars>>

\* the setTimeout of the backoff fires; continue; attempt++
TimerFires ==
    /\ rpc = "waiting"
    /\ waits' = Append(waits, timer)
    /\ timer' = NoTimer
    /\ attempt' = attempt + 1
    /\ rpc' = "attempt"
    /\ UNCHANGED <<policy, lastError, invocations, raised, outcome>>
    /\ UNCHANGED dispatchVars
    /\ UNCHANGED vaultVars
    /\ UNCHANGED pollVars
    /\ UNCHANGED <<createVars, launchVars>>

\* the loop ends without having returned or thrown: throw lastError
LoopExit ==
    /\ rpc = "attempt"
    /\ ~LoopContinues(policy, attempt)
    /\ outcome' = Threw(lastError)
    /\ rpc' = "done"
    /\ UNCHANGED <<policy, attempt, lastError, timer, invocations, waits, raised>>
    /\ UNCHANGED dispatchVars
    /\ UNCHANGED vaultVars
    /\ UNCHANGED pollVars
    /\ UNCHANGED <<createVars, launchVars>>

RetryNext ==
    \/ AttemptReturns
    \/ AttemptRaises
    \/ TimerFires
    \/ LoopExit

(***************************************************************************)
(* The three servers: tool listings                                        *)
(***************************************************************************)
Servers == {"supabase", "netlify", "github"}

Range(seq) == {seq[i] : i \in DOMAIN seq}

\* The ListToolsRequestSchema handler: the tool names, in listing order.
Tools(srv) ==
    CASE srv = "supabase" ->
           <<"create_project", "execute_sql", "configure_auth_provider", "get_project_info">>
      [] srv = "netlify" ->
           <<"create_site", "configure_env_vars", "deploy_site", "get_site_info">>
      [] srv = "github" ->
           <<"create_repository", "create_secret", "push_files">>

ToolNames(srv) == Range(Tools(srv))

\* inputSchema.properties of each tool
Fields(tool) ==
    CASE tool = "create_project" -> {"name", "region", "db_password", "plan"}
      [] tool = "execute_sql" -> {"project_ref", "sql"}
      [] tool = "configure_auth_provider" ->
           {"project_ref", "provider", "client_id", "client_secret", "redirect_uri"}
      [] tool = "get_project_info" -> {"project_ref"}
      [] tool = "create_site" -> {"name", "repo"}
      [] tool = "configure_env_vars" -> {"site_id", "env_vars"}
      [] tool = "deploy_site" -> {"site_id", "directory", "branch"}
      [] tool = "get_site_info" -> {"site_id"}
      [] tool = "create_repository" ->
           {"name", "description", "private", "template_owner", "template_repo"}
      [] tool = "create_secret" -> {"owner", "repo", "secret_name", "secret_value"}
      [] tool = "push_files" -> {"owner", "repo", "files", "message"}
      [] OTHER -> {}

\* inputSchema.required of each tool
Required(tool) ==
    CASE tool = "create_project" -> {"name", "db_password"}
      [] tool = "execute_sql" -> {"project_ref", "sql"}
      [] tool = "configure_auth_provider" ->
           {"project_ref", "provider", "client_id", "client_secret"}
      [] tool = "get_project_info" -> {"project_ref"}
      [] tool = "create_site" -> {"name"}
      [] tool = "configure_env_vars" -> {"site_id", "env_vars"}
      [] tool = "deploy_site" -> {"site_id"}
      [] tool = "get_site_info" -> {"site_id"}
      [] tool = "create_repository" -> {"name", "description"}
      [] tool = "create_secret" -> {"owner", "repo", "secret_name", "secret_value"}
      [] tool = "push_files" -> {"owner", "repo", "files"}
      [] OTHER -> {}

(***************************************************************************)
(* Requests: a tool name and an arguments object                           *)
(***************************************************************************)
\* request.params.arguments left out: args is undefined
NoArgs == [defined |-> FALSE, val |-> <<>>]
\* an arguments object holding the fields of f
ArgsObject(f) == [defined |-> TRUE, val |-> f]

Has(args, f) == args.defined /\ f \in DOMAIN args.val

Restrict(f, S) == [k \in S |-> f[k]]

\* An env_vars object with n entries; the keys are 1..n, in insertion order.
EnvVarsObject(n) == [i \in 1 .. n |-> i]

\* The files arguments of push_files drawn: no file, one, two.
FileLists == {<<>>, <<"README.md">>, <<"README.md", "src/app.ts">>}

\* Values for every field of a tool. Strings are strings, except where the
\* code takes the string apart (repo of create_site: a sequence of characters).
FullArgs(tool) ==
    CASE tool = "create_project" ->
           [name : {"app"}, region : {"eu-west-1"},
            db_password : {"short", "long-password-12"}, plan : {"free"}]
      [] tool = "execute_sql" -> [project_ref : {"ref1"}, sql : {"select 1"}]
      [] tool = "configure_auth_provider" ->
           [project_ref : {"ref1"}, provider : {"github"}, client_id : {"id"},
            client_secret : {"secret"}, redirect_uri : {"https://cb"}]
      [] tool = "get_project_info" -> [project_ref : {"ref1"}]
      [] tool = "create_site" ->
           [name : {"My Site"}, repo : {<<"o", "/", "r">>, <<"o">>, <<"/", "r">>}]
      [] tool = "configure_env_vars" ->
           [site_id : {"site1"}, env_vars : {EnvVarsObject(n) : n \in 0 .. MaxEnvVars}]
      [] tool = "deploy_site" -> [site_id : {"site1"}, directory : {"."}, branch : {"main"}]
      [] tool = "get_site_info" -> [site_id : {"site1"}]
      [] tool = "create_repository" ->
           [name : {"repo1"}, description : {"d"}, private : {"true"},
            template_owner : {"tmpl", ""}, template_repo : {"starter", ""}]
      [] tool = "create_secret" ->
           [owner : {"me"}, repo : {"repo1"}, secret_name : {"S"}, secret_value : {"v"}]
      [] tool = "push_files" ->
           [owner : {"me"}, repo : {"repo1"}, files : FileLists, message : {"msg"}]
      [] OTHER -> {<<>>}

\* The fields whose absence changes what the handler throws, awaits or
\* returns; the other fields go into the vendor request and nowhere else.
\* (template_owner and template_repo of create_repository are read for
\* their truthiness: FullArgs draws them empty, which does what their
\* absence does.)
ReadFields(tool) ==
    CASE tool = "create_project" -> {"db_password"}
      [] tool = "configure_auth_provider" -> {"provider"}
      [] tool = "create_site" -> {"name", "repo"}
      [] tool = "configure_env_vars" -> {"env_vars"}
      [] tool = "create_repository" -> {"name"}
      [] tool = "create_secret" -> {"secret_name"}
      [] tool = "push_files" -> {"files"}
      [] OTHER -> {}

\* Which fields an arguments object drawn for a tool holds: all of them,
\* none, or, where the handler reads more than one field, all but one of
\* those (with a single field read, none is that case).
FieldSets(tool) ==
    {Fields(tool), {}}
        \cup (IF Cardinality(ReadFields(tool)) > 1
              THEN {Fields(tool) \ {f} : f \in ReadFields(tool)}
              ELSE {})

\* The arguments objects drawn for a tool, or no arguments object at all.
ArgsOf(tool) ==
    {ArgsObject(Restrict(f, S)) : f \in FullArgs(tool), S \in FieldSets(tool)}
        \cup {NoArgs}

\* Names that no server registers.
UnknownNames == {"no_such_tool", "toString"}

\* The names a request to server srv may carry: its own tools, a tool of
\* each other server, and names no server registers.
NamesFor(srv) ==
    ToolNames(srv)
        \cup {Tools(other)[Len(Tools(other))] : other \in Servers \ {srv}}
        \cup UnknownNames

\* The arguments a request to server srv for `name` may carry: for a tool
\* of the server the arguments objects drawn for it; for any other name
\* (the switch does not look at the arguments) an arguments object or none.
ArgsFor(srv, name) ==
    IF name \in ToolNames(srv) THEN ArgsOf(name)
    ELSE {ArgsObject(f) : f \in FullArgs(name)} \cup {NoArgs}

(***************************************************************************)
(* The vendor side: what the promises a handler awaits settle with         *)
(***************************************************************************)
\* What a vendor request of a handler may raise into the handler: an Error,
\* an Error carrying a status, a plain object with and without a message,
\* a string, null, undefined.
VendorRaises ==
    { Error("vendor failure"),
      ErrObj("Object", "plain object message", Absent, Absent),
      ErrObj("Object", Undefined, Absent, Absent),
      JSString("boom"),
      JSNull,
      JSUndefined }

\* An awaited promise settles: it resolves (kind says what the code reads
\* of the value) or it rejects with `raise`.
Resolves(kind) == [kind |-> kind, raise |-> JSUndefined]
Rejects(v) == [kind |-> "rejects", raise |-> v]
NoSettlement == Resolves("none")

\* The message field of an error body that has one
BodyMessage == "vendor message"

\* The awaits of a bare fetch whose response.ok the code tests
CheckedFetches == {"fetch", "account_env", "site_env", "poll"}

\* What the promise awaited at `at` may settle with.
\*   a bare fetch resolves with an OK or a non-OK response, or rejects;
\*   withRetry(fetchWithRetrySupport) resolves with an OK response or
\*     throws (while it retries the handler stays suspended where it is);
\*   an octokit call, sodium.ready and response.json() resolve or reject;
\*   the body of GET /organizations is an empty or a non-empty array;
\*   the body of a non-OK response has a message or none;
\*   the body of a status poll says ACTIVE_HEALTHY or something else;
\*   the body of GET /sites/{id} holds build_settings or does not;
\*   Promise.all of no promise resolves;
\*   the poll timer fires within maxWaitTime of the start or after it.
Settlements(at) ==
    CASE at \in CheckedFetches ->
           {Resolves("ok"), Resolves("not_ok")} \cup {Rejects(v) : v \in VendorRaises}
      [] at = "organizations_body" ->
           {Resolves("ok"), Resolves("empty")} \cup {Rejects(v) : v \in VendorRaises}
      [] at = "error_body" ->
           {Resolves("message"), Resolves("no_message")}
               \cup {Rejects(v) : v \in VendorRaises}
      [] at = "poll_body" ->
           {Resolves("healthy"), Resolves("other")} \cup {Rejects(v) : v \in VendorRaises}
      [] at = "poll_timer" -> {Resolves("in_time"), Resolves("expired")}
      [] at = "site_body" ->
           {Resolves("ok"), Resolves("no_build_settings")}
               \cup {Rejects(v) : v \in VendorRaises}
      [] at = "Promise.all" -> {Resolves("ok")}
      [] OTHER -> {Resolves("ok")} \cup {Rejects(v) : v \in VendorRaises}

(***************************************************************************)
(* Tool handlers. A handler is an async function: it runs from where it is *)
(* (its frame: the await it is suspended at and its locals) on the         *)
(* settlement of that await up to its next await, its return or its throw. *)
(* Each gives what the handler did: suspended at an await, returned a      *)
(* result with the given fields or threw; whether it has issued a vendor   *)
(* request; its frame and the server object afterwards.                    *)
(***************************************************************************)
\* The frame of a handler that was just called: setCount and errors.length
\* are the locals of configureEnvVars, blobs is how many createBlob calls
\* of pushFiles have not settled.
Fresh == [at |-> "start", set |-> 0, errors |-> 0, blobs |-> 0]
\* The frame of a handler suspended at `at`
FrameAt(at) == [Fresh EXCEPT !.at = at]

Return(fields, fr, self) ==
    [kind |-> "return", fields |-> fields, error |-> JSUndefined,
     vendor |-> fr.at # "start", inst |-> self, frame |-> fr]
Throw(err, fr, self) ==
    [kind |-> "throw", fields |-> {}, error |-> err,
     vendor |-> fr.at # "start", inst |-> self, frame |-> fr]
Await(at, fr, self) ==
    [kind |-> "await", fields |-> {}, error |-> JSUndefined,
     vendor |-> TRUE, inst |-> self, frame |-> [fr EXCEPT !.at = at]]

\* const { ... } = params  with params undefined
DestructureTypeError == TypeError("Cannot destructure property of undefined")

\* A result field that holds an argument as it came: JSON.stringify leaves
\* a field out when its value is undefined.
Echoed(args, f) == IF Has(args, f) THEN {f} ELSE {}

\* a string used as a condition
TruthyString(str) == str # Undefined /\ str # ""

PasswordMinLength == 12

CreateProjectFields ==
    {"project_id", "project_ref", "url", "api_url", "anon_key", "service_role_key",
     "db_connection_string", "dashboard_url"}

\* The credential whose value the text of a result field is built from:
\* db_connection_string interpolates the db_password argument,
\* service_role_key is the project's secret API key.  The other fields of
\* every tool result are built from ids, names, counts and fixed text.
CredentialIn(field) ==
    CASE field = "db_connection_string" -> {"db_password"}
      [] field = "service_role_key" -> {"service_role_key"}
      [] OTHER -> {}

\* createProject before its first await: the password check, then the
\* organization lookup unless the server object holds an organization.
CreateProjectStarts(self, args, fr) ==
    IF ~args.defined THEN Throw(DestructureTypeError, fr, self)
    ELSE IF ~Has(args, "db_password")
    THEN Throw(TypeError("Cannot read properties of undefined (reading 'length')"),
               fr, self)
    ELSE IF Len(args.val["db_password"]) < PasswordMinLength
    THEN Throw(Error("Database password must be at least 12 characters"), fr, self)
    ELSE IF ~TruthyString(self.organizationId) THEN Await("organizations", fr, self)
    ELSE Await("projects", fr, self)

\* createProject from the creation request on: POST /projects through
\* withRetry and its body, waitForProjectReady (a fetch and a body read in
\* a try block that swallows what they raise, then the timer; the loop ends
\* with ACTIVE_HEALTHY or, past maxWaitTime, with the timeout error), the
\* api-keys request and its body in a try block that swallows what they
\* raise.
CreateProjectGoesOn(self, fr, o) ==
    CASE fr.at = "projects" ->
           IF o.kind = "rejects" THEN Throw(CatchThrows(o.raise), fr, self)
           ELSE Await("projects_body", fr, self)
      [] fr.at = "projects_body" ->
           IF o.kind = "rejects" THEN Throw(o.raise, fr, self)
           ELSE Await("poll", fr, self)
      [] fr.at = "poll" ->
           IF o.kind = "ok" THEN Await("poll_body", fr, self)
           ELSE Await("poll_timer", fr, self)
      [] fr.at = "poll_body" ->
           IF o.kind = "healthy" THEN Await("api_keys", fr, self)
           ELSE Await("poll_timer", fr, self)
      [] fr.at = "poll_timer" ->
           IF o.kind = "in_time" THEN Await("poll", fr, self)
           ELSE Throw(Error("did not become ready within"), fr, self)
      [] fr.at = "api_keys" ->
           IF o.kind = "rejects" THEN Return(CreateProjectFields, fr, self)
           ELSE Await("api_keys_body", fr, self)
      [] OTHER -> Return(CreateProjectFields, fr, self)

\* A variant of createProject that keeps the organization it looked up on
\* the server object.
createProject_CachesOrg(self, args, fr, o) ==
    CASE fr.at = "start" -> CreateProjectStarts(self, args, fr)
      [] fr.at = "organizations" ->
           IF o.kind = "rejects" THEN Throw(CatchThrows(o.raise), fr, self)
           ELSE Await("organizations_body", fr, self)
      [] fr.at = "organizations_body" ->
           IF o.kind = "rejects" THEN Throw(o.raise, fr, self)
           ELSE IF o.kind = "empty"
           THEN Throw(Error("No organizations found. Create one at https://supabase.com/dashboard"),
                      fr, self)
           ELSE Await("projects", fr, [self EXCEPT !.organizationId = "org1"])
      [] OTHER -> CreateProjectGoesOn(self, fr, o)

\* SupabaseMCPServer.createProject
createProject(self, args, fr, o) ==
    CASE fr.at = "start" -> CreateProjectStarts(self, args, fr)
      [] fr.at = "organizations" ->
           IF o.kind = "rejects" THEN Throw(CatchThrows(o.raise), fr, self)
           ELSE Await("organizations_body", fr, self)
      [] fr.at = "organizations_body" ->
           IF o.kind = "rejects" THEN Throw(o.raise, fr, self)
           ELSE IF o.kind = "empty"
           THEN Throw(Error("No organizations found. Create one at https://supabase.com/dashboard"),
                      fr, self)
           ELSE Await("projects", fr, self)
      [] OTHER -> CreateProjectGoesOn(self, fr, o)

\* const response = await fetch(...)
\* if (!response.ok) { const error = await response.json()
\*                     throw new Error(error.message || fallback) }
NotOkThrows(fr, o, fallback, self) ==
    IF fr.at = "fetch"
    THEN IF o.kind = "rejects" THEN Throw(o.raise, fr, self)
         ELSE IF o.kind = "not_ok" THEN Await("error_body", fr, self)
         ELSE Await("body", fr, self)
    ELSE IF o.kind = "rejects" THEN Throw(o.raise, fr, self)
    ELSE Throw(Error(IF o.kind = "message" THEN BodyMessage ELSE fallback), fr, self)

\* A handler of one bare fetch: the request, then the body of the response,
\* the error body when the response is not OK.
FetchesOnce(self, args, fr, o, fallback, fields) ==
    CASE fr.at = "start" ->
           IF ~args.defined THEN Throw(DestructureTypeError, fr, self)
           ELSE Await("fetch", fr, self)
      [] fr.at = "body" ->
           IF o.kind = "rejects" THEN Throw(o.raise, fr, self)
           ELSE Return(fields, fr, self)
      [] OTHER -> NotOkThrows(fr, o, fallback, self)

\* SupabaseMCPServer.executeSQL
executeSQL(self, args, fr, o) ==
    FetchesOnce(self, args, fr, o, "Failed to execute SQL", {"rows_affected"})

\* SupabaseMCPServer.configureAuthProvider: the body of an OK response is
\* not read.
configureAuthProvider(self, args, fr, o) ==
    CASE fr.at = "start" ->
           IF ~args.defined THEN Throw(DestructureTypeError, fr, self)
           ELSE Await("fetch", fr, self)
      [] fr.at = "fetch" /\ o.kind = "ok" ->
           Return(Echoed(args, "provider") \cup {"message"}, fr, self)
      [] OTHER -> NotOkThrows(fr, o, "Failed to configure auth provider", self)

\* SupabaseMCPServer.getProjectInfo
getProjectInfo(self, args, fr, o) ==
    FetchesOnce(self, args, fr, o, "Failed to get project info",
                {"project_id", "project_ref", "name", "url", "api_url",
                 "region", "status", "created_at"})

\* The index of the first sep in s, 0 when there is none.
IndexOf(s, sep) ==
    IF \E i \in 1 .. Len(s) : s[i] = sep
    THEN CHOOSE i \in 1 .. Len(s) : s[i] = sep /\ \A j \in 1 .. (i - 1) : s[j] # sep
    ELSE 0

RECURSIVE Split(_, _)
\* String.prototype.split(sep) on a sequence of characters
Split(s, sep) ==
    LET i == IndexOf(s, sep) IN
    IF i = 0 THEN <<s>>
    ELSE <<SubSeq(s, 1, i - 1)>> \o Split(SubSeq(s, i + 1, Len(s)), sep)

\* const [owner, repoName] = repo.split('/'); !owner || !repoName
BadRepoFormat(repo) ==
    LET parts == Split(repo, "/") IN
    \/ parts[1] = <<>>
    \/ Len(parts) < 2
    \/ parts[2] = <<>>

\* const response = await withRetry(() => fetchWithRetrySupport(...))
\* const data = await response.json()
RetriedThenBody(fr, o, fields, self) ==
    IF fr.at = "request"
    THEN IF o.kind = "rejects" THEN Throw(CatchThrows(o.raise), fr, self)
         ELSE Await("body", fr, self)
    ELSE IF o.kind = "rejects" THEN Throw(o.raise, fr, self)
    ELSE Return(fields, fr, self)

\* NetlifyMCPServer.createSite
createSite(self, args, fr, o) ==
    IF fr.at # "start"
    THEN RetriedThenBody(fr, o, {"site_id", "site_name", "url", "admin_url", "deploy_url"},
                         self)
    ELSE IF ~args.defined THEN Throw(DestructureTypeError, fr, self)
    ELSE IF ~Has(args, "name")
    THEN Throw(TypeError("Cannot read properties of undefined (reading 'toLowerCase')"),
               fr, self)
    ELSE IF Has(args, "repo") /\ args.val["repo"] # <<>> /\ BadRepoFormat(args.val["repo"])
    THEN Throw(Error("Repository must be in format owner/repo"), fr, self)
    ELSE Await("request", fr, self)

\* The for loop of configureEnvVars at the top of an iteration, and what
\* follows the loop: fr.set is setCount, fr.errors is errors.length, and
\* the entries gone through are as many as the two together.
EnvVarsLoop(self, args, fr) ==
    IF fr.set + fr.errors < Len(args.val["env_vars"]) THEN Await("account_env", fr, self)
    ELSE IF fr.errors > 0 /\ fr.set = 0
    THEN Throw(Error("Failed to set environment variables"), fr, self)
    ELSE Return({"vars_set", "message"}, fr, self)

\* catch (error: any) { errors.push(`Error setting ${key}: ${error.message}`) }
\* For null and undefined the read of error.message raises a TypeError out
\* of the catch block and of the loop: the remaining entries are not tried.
EntryRaised(self, args, fr, error) ==
    IF ReadRaises(error) THEN Throw(PropertyReadTypeError(error, "message"), fr, self)
    ELSE EnvVarsLoop(self, args, [fr EXCEPT !.errors = @ + 1])

\* NetlifyMCPServer.configureEnvVars: for each entry the account-level
\* request and, when its response is not OK, the site-level request.
configureEnvVars(self, args, fr, o) ==
    IF fr.at = "start"
    THEN IF ~args.defined THEN Throw(DestructureTypeError, fr, self)
         ELSE IF ~Has(args, "env_vars")
         THEN Throw(TypeError("Cannot convert undefined or null to object"), fr, self)
         ELSE EnvVarsLoop(self, args, fr)
    ELSE IF o.kind = "rejects" THEN EntryRaised(self, args, fr, o.raise)
    ELSE IF o.kind = "ok" THEN EnvVarsLoop(self, args, [fr EXCEPT !.set = @ + 1])
    ELSE IF fr.at = "account_env" THEN Await("site_env", fr, self)
    ELSE EnvVarsLoop(self, args, [fr EXCEPT !.errors = @ + 1])

\* NetlifyMCPServer.deploySite
deploySite(self, args, fr, o) ==
    IF fr.at # "start"
    THEN RetriedThenBody(fr, o, {"deploy_id", "build_id", "deploy_url", "state", "message"},
                         self)
    ELSE IF ~args.defined THEN Throw(DestructureTypeError, fr, self)
    ELSE Await("request", fr, self)

\* NetlifyMCPServer.getSiteInfo: JSON.stringify leaves build_settings out
\* of the result when the site has none.
getSiteInfo(self, args, fr, o) ==
    CASE fr.at = "start" ->
           IF ~args.defined THEN Throw(DestructureTypeError, fr, self)
           ELSE Await("fetch", fr, self)
      [] fr.at = "fetch" /\ o.kind = "ok" -> Await("site_body", fr, self)
      [] fr.at = "site_body" ->
           IF o.kind = "rejects" THEN Throw(o.raise, fr, self)
           ELSE Return({"site_id", "site_name", "url", "admin_url", "state",
                        "created_at", "updated_at"}
                           \cup (IF o.kind = "ok" THEN {"build_settings"} ELSE {}),
                       fr, self)
      [] OTHER -> NotOkThrows(fr, o, "Failed to get site info", self)

\* The octokit calls of a handler one after the other: a rejection is
\* thrown as it is, after the last call the handler returns.
OctokitCalls(calls, fr, o, fields, self) ==
    LET i == CHOOSE k \in 1 .. Len(calls) : calls[k] = fr.at IN
    IF o.kind = "rejects" THEN Throw(o.raise, fr, self)
    ELSE IF i < Len(calls) THEN Await(calls[i + 1], fr, self)
    ELSE Return(fields, fr, self)

\* GitHubMCPServer.createRepository
createRepository(self, args, fr, o) ==
    IF fr.at # "start"
    THEN OctokitCalls(<<"users.getAuthenticated",
                        IF /\ Has(args, "template_owner")
                           /\ Has(args, "template_repo")
                           /\ TruthyString(args.val["template_owner"])
                           /\ TruthyString(args.val["template_repo"])
                        THEN "repos.createUsingTemplate"
                        ELSE "repos.createForAuthenticatedUser">>,
                      fr, o,
                      {"repo_url", "clone_url", "ssh_url", "owner"}
                          \cup (IF Has(args, "name") THEN {"repo_name"} ELSE {}),
                      self)
    ELSE IF ~args.defined THEN Throw(DestructureTypeError, fr, self)
    ELSE Await("users.getAuthenticated", fr, self)

\* GitHubMCPServer.createSecret
createSecret(self, args, fr, o) ==
    IF fr.at # "start"
    THEN OctokitCalls(<<"actions.getRepoPublicKey", "sodium.ready",
                        "actions.createOrUpdateRepoSecret">>,
                      fr, o, Echoed(args, "secret_name") \cup {"message"}, self)
    ELSE IF ~args.defined THEN Throw(DestructureTypeError, fr, self)
    ELSE Await("actions.getRepoPublicKey", fr, self)

\* GitHubMCPServer.pushFiles: getRef and getCommit come before files.map;
\* files.map issues one createBlob call for every file at once and the
\* handler awaits them together: Promise.all resolves when the last of
\* them has resolved (at once for no file) and rejects with the first
\* rejection, whatever calls have not settled then.
pushFiles(self, args, fr, o) ==
    IF fr.at = "start"
    THEN IF ~args.defined THEN Throw(DestructureTypeError, fr, self)
         ELSE Await("git.getRef", fr, self)
    ELSE IF o.kind = "rejects" THEN Throw(o.raise, fr, self)
    ELSE CASE fr.at = "git.getRef" -> Await("git.getCommit", fr, self)
           [] fr.at = "git.getCommit" ->
                IF ~Has(args, "files")
                THEN Throw(TypeError("Cannot read properties of undefined (reading 'map')"),
                           fr, self)
                ELSE IF Len(args.val["files"]) = 0 THEN Await("Promise.all", fr, self)
                ELSE Await("git.createBlob",
                           [fr EXCEPT !.blobs = Len(args.val["files"])], self)
           [] fr.at = "git.createBlob" /\ fr.blobs > 1 ->
                Await("git.createBlob", [fr EXCEPT !.blobs = @ - 1], self)
           [] fr.at \in {"git.createBlob", "Promise.all"} ->
                Await("git.createTree", [fr EXCEPT !.blobs = 0], self)
           [] fr.at = "git.createTree" -> Await("git.createCommit", fr, self)
           [] fr.at = "git.createCommit" -> Await("git.updateRef", fr, self)
           [] OTHER -> Return({"commit_sha", "files_pushed", "message"}, fr, self)

(***************************************************************************)
(* The CallToolRequestSchema handlers                                      *)
(***************************************************************************)
\* What the request handler gives back to the SDK: a result object
\* {content: [...]} or a rejection (its promise rejects with `raisedValue`).
\* The text of the single content item is JSON; it is kept parsed: the keys
\* present, the value of success and the value of error.
ContentResponse(success, keys, error) ==
    [kind |-> "content", items |-> 1, itemType |-> "text",
     success |-> success, keys |-> keys, error |-> error, raisedValue |-> JSUndefined]
Rejection(v) ==
    [kind |-> "rejected", items |-> 0, itemType |-> "",
     success |-> FALSE, keys |-> {}, error |-> Undefined, raisedValue |-> v]
NoResponse ==
    [kind |-> "none", items |-> 0, itemType |-> "",
     success |-> FALSE, keys |-> {}, error |-> Undefined, raisedValue |-> JSUndefined]

\* JSON.stringify({success: true, ...fields}, null, 2) in a text item
SuccessResponse(fields) == ContentResponse(TRUE, {"success"} \cup fields, Undefined)

\* JSON.stringify({success: false, error: message}) in a text item:
\* a key whose value is undefined is left out.
FailureResponse(message) ==
    ContentResponse(FALSE,
                    {"success"} \cup (IF message = Undefined THEN {} ELSE {"error"}),
                    message)

\* new Error(`Unknown tool: ${name}`)
UnknownToolError(name) == Error("Unknown tool: " \o name)

\* The switch of the Supabase server, and the handler it called going on
\* after an await.
SupabaseSwitch(self, name, args, fr, o) ==
    CASE name = "create_project" -> createProject(self, args, fr, o)
      [] name = "execute_sql" -> executeSQL(self, args, fr, o)
      [] name = "configure_auth_provider" -> configureAuthProvider(self, args, fr, o)
      [] name = "get_project_info" -> getProjectInfo(self, args, fr, o)
      [] OTHER -> Throw(UnknownToolError(name), fr, self)

\* A variant of the Netlify switch without the default case: the request
\* handler returns undefined, no envelope.
NetlifySwitch_NoDefault(self, name, args, fr, o) ==
    CASE name = "create_site" -> createSite(self, args, fr, o)
      [] name = "configure_env_vars" -> configureEnvVars(self, args, fr, o)
      [] name = "deploy_site" -> deploySite(self, args, fr, o)
      [] name = "get_site_info" -> getSiteInfo(self, args, fr, o)
      [] OTHER -> Return({}, fr, self)

\* The switch of the Netlify server.
NetlifySwitch(self, name, args, fr, o) ==
    CASE name = "create_site" -> createSite(self, args, fr, o)
      [] name = "configure_env_vars" -> configureEnvVars(self, args, fr, o)
      [] name = "deploy_site" -> deploySite(self, args, fr, o)
      [] name = "get_site_info" -> getSiteInfo(self, args, fr, o)
      [] OTHER -> Throw(UnknownToolError(name), fr, self)

\* A variant of the GitHub switch without the push_files case.
GitHubSwitch_NoPushFiles(self, name, args, fr, o) ==
    CASE name = "create_repository" -> createRepository(self, args, fr, o)
      [] name = "create_secret" -> createSecret(self, args, fr, o)
      [] OTHER -> Throw(UnknownToolError(name), fr, self)

\* The switch of the GitHub server.
GitHubSwitch(self, name, args, fr, o) ==
    CASE name = "create_repository" -> createRepository(self, args, fr, o)
      [] name = "create_secret" -> createSecret(self, args, fr, o)
      [] name = "push_files" -> pushFiles(self, args, fr, o)
      [] OTHER -> Throw(UnknownToolError(name), fr, self)

\* catch (error: unknown) of the Supabase and Netlify servers:
\* error instanceof Error ? error.message : 'Unknown error'
CatchUnknown(error) ==
    FailureResponse(IF InstanceofError(error) THEN error.message ELSE "Unknown error")

\* catch (error: any) of the GitHub server: error.message is read as it is;
\* the read raises for null and undefined, out of the catch block.
CatchAny(error) ==
    IF ReadRaises(error) THEN Rejection(PropertyReadTypeError(error, "message"))
    ELSE FailureResponse(error.message)

\* The request handler of server srv on {name, arguments: args}, from the
\* frame fr of the tool handler on the settlement o of its await (from
\* Fresh: from the arrival of the request): no response while the tool
\* handler is suspended again, else the handler's own return value on
\* success, the catch block's envelope otherwise.
CallToolRequestHandler(srv, self, name, args, fr, o) ==
    LET h == CASE srv = "supabase" -> SupabaseSwitch(self, name, args, fr, o)
               [] srv = "netlify" -> NetlifySwitch(self, name, args, fr, o)
               [] srv = "github" -> GitHubSwitch(self, name, args, fr, o)
    IN [response |-> IF h.kind = "await" THEN NoResponse
                     ELSE IF h.kind = "return" THEN SuccessResponse(h.fields)
                     ELSE IF srv = "github" THEN CatchAny(h.error)
                     ELSE CatchUnknown(h.error),
        handler |-> h]

(***************************************************************************)
(* One server process                                                      *)
(***************************************************************************)
\* What the process is started with: the bearer credential (startup exits
\* without one) and, for Supabase, the optional SUPABASE_ORG_ID.
Configs(srv) ==
    [accessToken : {"token"},
     organizationId : IF srv = "supabase" THEN {Undefined, "org1"} ELSE {Undefined}]

\* The constructors: the config is copied into the fields of the object.
NewServer(cfg) ==
    [accessToken |-> cfg.accessToken, organizationId |-> cfg.organizationId]

NoRequest == [name |-> "", args |-> NoArgs]
NoHandler == [kind |-> "none", error |-> JSUndefined, vendor |-> FALSE,
              set |-> 0, errors |-> 0]

\* No await settled: the call was answered before any await.
IdleEnv == [frame |-> Fresh, settled |-> NoSettlement]

\* Whether a response is anything but a success envelope.
IsFailure(resp) == resp.kind = "rejected" \/ (resp.kind = "content" /\ ~resp.success)

\* The ListToolsRequestSchema handler: the tool definitions (name and
\* inputSchema: properties, required), in listing order.
ListToolsRequestHandler(srv) ==
    [i \in 1 .. Len(Tools(srv)) |->
        [name |-> Tools(srv)[i], properties |-> Fields(Tools(srv)[i]),
         required |-> Required(Tools(srv)[i])]]

NoListing == <<>>

\* process.env as the constructor arguments were read from it
EnvironmentOf(cfg) == [token |-> cfg.accessToken, orgId |-> cfg.organizationId]

\* A process that started with its credential and is connected.
DispatchInit ==
    /\ server \in Servers
    /\ config \in Configs(server)
    /\ inst = NewServer(config)
    /\ lastReq = NoRequest
    /\ lastEnv = IdleEnv
    /\ lastResp = NoResponse
    /\ lastHandler = NoHandler
    /\ failedEarlier = FALSE
    /\ environment = EnvironmentOf(config)
    /\ phase = "serving"
    /\ exitCode = Absent
    /\ lastList = NoListing
    /\ inflight = {}

\* One list-tools request answered.
ListTools ==
    /\ phase = "serving"
    /\ lastList' = ListToolsRequestHandler(server)
    /\ UNCHANGED <<server, config, inst, lastReq, lastEnv, lastResp, lastHandler,
                   failedEarlier, environment, phase, exitCode, inflight>>
    /\ UNCHANGED retryVars
    /\ UNCHANGED vaultVars
    /\ UNCHANGED pollVars
    /\ UNCHANGED <<createVars, launchVars>>

\* What a call leaves to be seen of the handler when it ends
HandlerSeen(h) ==
    [kind |-> h.kind, error |-> h.error, vendor |-> h.vendor,
     set |-> h.frame.set, errors |-> h.frame.errors]

\* A call whose handler is suspended: the request and the handler's frame
SuspendedCall(req, fr) == [name |-> req.name, args |-> req.args, frame |-> fr]

\* The handler of a call was suspended again: nothing is answered.
StaysInFlight(req) ==
    /\ lastReq' = req
    /\ lastEnv' = IdleEnv
    /\ lastResp' = NoResponse
    /\ lastHandler' = NoHandler

\* A call-tool request arrives and its handler runs up to its first await:
\* the call is suspended there and the event loop takes up the next
\* message.  A call whose handler returns or throws before any await is
\* answered before any other message is looked at.  Two suspended calls
\* with the same request are told apart by where their handlers are.
CallTool ==
    /\ phase = "serving"
    /\ \E name \in NamesFor(server) :
       \E args \in ArgsFor(server, name) :
          LET req == [name |-> name, args |-> args]
              r == CallToolRequestHandler(server, inst, name, args, Fresh, NoSettlement)
          IN
          /\ IF r.handler.kind = "await"
             THEN /\ Cardinality(inflight) < MaxInflight
                  /\ SuspendedCall(req, r.handler.frame) \notin inflight
                  /\ inflight' = inflight \cup {SuspendedCall(req, r.handler.frame)}
                  /\ StaysInFlight(req)
             ELSE /\ lastReq' = req
                  /\ lastEnv' = IdleEnv
                  /\ lastResp' = r.response
                  /\ lastHandler' = HandlerSeen(r.handler)
                  /\ UNCHANGED inflight
          /\ inst' = r.handler.inst
    /\ failedEarlier' = (failedEarlier \/ IsFailure(lastResp))
    /\ UNCHANGED <<server, config, environment, phase, exitCode, lastList>>
    /\ UNCHANGED retryVars
    /\ UNCHANGED vaultVars
    /\ UNCHANGED pollVars
    /\ UNCHANGED <<createVars, launchVars>>

\* The promise a suspended call awaits settles and its handler runs on to
\* its next await: the call stays suspended, there.
CallResumes ==
    /\ phase = "serving"
    /\ \E call \in inflight :
       \E o \in Settlements(call.frame.at) :
          LET r == CallToolRequestHandler(server, inst, call.name, call.args,
                                          call.frame, o)
              next == SuspendedCall(call, r.handler.frame)
          IN
          /\ r.handler.kind = "await"
          /\ next \notin inflight \ {call}
          /\ inflight' = (inflight \ {call}) \cup {next}
          /\ StaysInFlight([name |-> call.name, args |-> call.args])
          /\ inst' = r.handler.inst
    /\ failedEarlier' = (failedEarlier \/ IsFailure(lastResp))
    /\ UNCHANGED <<server, config, environment, phase, exitCode, lastList>>
    /\ UNCHANGED retryVars
    /\ UNCHANGED vaultVars
    /\ UNCHANGED pollVars
    /\ UNCHANGED <<createVars, launchVars>>

\* The promise a suspended call awaits settles and its handler runs to its
\* end: the call is answered.
CallSettles ==
    /\ phase = "serving"
    /\ \E call \in inflight :
       \E o \in Settlements(call.frame.at) :
          LET r == CallToolRequestHandler(server, inst, call.name, call.args,
                                          call.frame, o)
          IN
          /\ r.handler.kind # "await"
          /\ inflight' = inflight \ {call}
          /\ lastReq' = [name |-> call.name, args |-> call.args]
          /\ lastEnv' = [frame |-> call.frame, settled |-> o]
          /\ lastResp' = r.response
          /\ lastHandler' = HandlerSeen(r.handler)
          /\ inst' = r.handler.inst
    /\ failedEarlier' = (failedEarlier \/ IsFailure(lastResp))
    /\ UNCHANGED <<server, config, environment, phase, exitCode, lastList>>
    /\ UNCHANGED retryVars
    /\ UNCHANGED vaultVars
    /\ UNCHANGED pollVars
    /\ UNCHANGED <<createVars, launchVars>>

DispatchNext ==
    \/ CallTool
    \/ CallResumes
    \/ CallSettles
    \/ ListTools

(***************************************************************************)
(* Module startup of the three servers                                     *)
(***************************************************************************)
\* What the environment may hold: the credential variable unset, empty or
\* set, and (Supabase) SUPABASE_ORG_ID unset or set.
\* token is the value the startup reads (Netlify:
\* NETLIFY_AUTH_TOKEN || NETLIFY_ACCESS_TOKEN).
Environments(srv) ==
    [token : {Undefined, "", "token"},
     orgId : IF srv = "supabase" THEN {Undefined, "org1"} ELSE {Undefined}]

\* the check, were it to test for undefined only
MissingCredential_UndefinedOnly(token) == token = Undefined

\* if (!accessToken) / if (!token)
MissingCredential(token) == ~TruthyString(token)

\* No server object was constructed.
NoServer == [accessToken |-> Undefined, organizationId |-> Undefined]

StartupInit ==
    /\ server \in Servers
    /\ environment \in Environments(server)
    /\ phase = "starting"
    /\ exitCode = Absent
    /\ config = NoServer
    /\ inst = NoServer
    /\ lastReq = NoRequest
    /\ lastEnv = IdleEnv
    /\ lastResp = NoResponse
    /\ lastHandler = NoHandler
    /\ failedEarlier = FALSE
    /\ lastList = NoListing
    /\ inflight = {}

\* The module body up to server.run(): the credential is read; without
\* one the process exits with code 1, otherwise the server is constructed
\* and connect is called.
StartupChecks ==
    /\ phase = "starting"
    /\ IF MissingCredential(environment.token)
       THEN /\ phase' = "exited"
            /\ exitCode' = 1
            /\ UNCHANGED <<config, inst>>
       ELSE /\ config' = [accessToken |-> environment.token,
                          organizationId |-> environment.orgId]
            /\ inst' = NewServer(config')
            /\ phase' = "connecting"
            /\ UNCHANGED exitCode
    /\ UNCHANGED <<server, environment, lastReq, lastEnv, lastResp, lastHandler,
                   failedEarlier, lastList, inflight>>
    /\ UNCHANGED <<retryVars, vaultVars, pollVars>>
    /\ UNCHANGED <<createVars, launchVars>>

\* await this.server.connect(transport) settles: the server serves.
Connects ==
    /\ phase = "connecting"
    /\ phase' = "serving"
    /\ UNCHANGED <<server, config, inst, environment, exitCode, lastReq, lastEnv, lastResp,
                   lastHandler, failedEarlier, lastList, inflight>>
    /\ UNCHANGED <<retryVars, vaultVars, pollVars>>
    /\ UNCHANGED <<createVars, launchVars>>

\* connect rejects: server.run().catch(...) exits with code 1.
ConnectFails ==
    /\ phase = "connecting"
    /\ phase' = "exited"
    /\ exitCode' = 1
    /\ UNCHANGED <<server, config, inst, environment, lastReq, lastEnv, lastResp,
                   lastHandler, failedEarlier, lastList, inflight>>
    /\ UNCHANGED <<retryVars, vaultVars, pollVars>>
    /\ UNCHANGED <<createVars, launchVars>>

StartupNext ==
    \/ StartupChecks
    \/ Connects
    \/ ConnectFails
    \/ CallTool
    \/ CallResumes
    \/ CallSettles
    \/ ListTools

(***************************************************************************)
(* SecretVault (mcp-servers/shared/secret-vault.ts)                        *)
(*                                                                         *)
(* Strings are sequences of UTF-16 code units, one model string per unit.  *)
(* Buffers are symbolic: the n-th output of crypto.randomBytes is          *)
(* RandomBytes(n), and no two outputs are equal.                           *)
(***************************************************************************)
\* A code unit that is the first / second half of a surrogate pair, the
\* code point such a pair encodes, and U+FFFD.
HighSurrogate == "uD83D"
LowSurrogate == "uDE00"
Supplementary == "U+1F600"
ReplacementChar == "uFFFD"

RECURSIVE Utf8Encode(_)
\* Encoding a string as 'utf8' (cipher.update(value, 'utf8', ...)): the
\* bytes, written as the sequence of code points they encode.  A surrogate
\* that is not part of a pair is encoded as U+FFFD.
Utf8Encode(str) ==
    IF str = <<>> THEN <<>>
    ELSE IF Len(str) >= 2 /\ str[1] = HighSurrogate /\ str[2] = LowSurrogate
    THEN <<Supplementary>> \o Utf8Encode(SubSeq(str, 3, Len(str)))
    ELSE IF str[1] \in {HighSurrogate, LowSurrogate}
    THEN <<ReplacementChar>> \o Utf8Encode(Tail(str))
    ELSE <<str[1]>> \o Utf8Encode(Tail(str))

RECURSIVE Utf8Decode(_)
\* Decoding bytes as 'utf8' (decipher.update(encrypted, 'hex', 'utf8'))
Utf8Decode(bytes) ==
    IF bytes = <<>> THEN <<>>
    ELSE IF bytes[1] = Supplementary
    THEN <<HighSurrogate, LowSurrogate>> \o Utf8Decode(Tail(bytes))
    ELSE <<bytes[1]>> \o Utf8Decode(Tail(bytes))

\* crypto.randomBytes: its n-th output
RandomBytes(n) == [random |-> n]
\* A Buffer after fill(0)
ZeroBytes == [random |-> 0]
\* No cipher was created
NoCipher == [random |-> Absent]

\* buf.toString('hex') and Buffer.from(hex, 'hex')
ToHex(buf) == [hex |-> buf]
FromHex(h) == h.hex
\* The ':' of the stored format
Colon == [ch |-> ":"]

\* createCipheriv('aes-256-cbc', key, iv) + update + final: the ciphertext
\* bytes of plain under key and iv.
Encrypt(key, iv, plain) == [key |-> key, iv |-> iv, plain |-> plain]
\* createDecipheriv('aes-256-cbc', key, iv) + update + final: the plaintext
\* bytes when key and iv are those of the encryption; otherwise the padding
\* check fails, or garbage comes out.
DecryptOk(key, iv, ct) == ct.key = key /\ ct.iv = iv
Decrypt(key, iv, ct) == ct.plain

\* ---- Map<string, string>: entries in insertion order ----
MapHas(m, k) == \E i \in 1 .. Len(m) : m[i].key = k
MapIndex(m, k) == CHOOSE i \in 1 .. Len(m) : m[i].key = k
\* Map.prototype.get; callers test MapHas first (undefined otherwise)
MapGet(m, k) == m[MapIndex(m, k)].value
\* Map.prototype.set: an existing key keeps its position
MapSet(m, k, v) ==
    IF MapHas(m, k)
    THEN [m EXCEPT ![MapIndex(m, k)] = [key |-> k, value |-> v]]
    ELSE Append(m, [key |-> k, value |-> v])
\* Map.prototype.delete: the map after it
MapDelete(m, k) ==
    IF MapHas(m, k)
    THEN SubSeq(m, 1, MapIndex(m, k) - 1) \o SubSeq(m, MapIndex(m, k) + 1, Len(m))
    ELSE m
\* Array.from(map.keys())
MapKeys(m) == [i \in 1 .. Len(m) |-> m[i].key]
\* Map.prototype.size
MapSize(m) == Len(m)
\* Map.prototype.clear
MapClear(m) == <<>>

\* ---- what a vault call gives back ----
NoResult == [kind |-> "none", val |-> <<>>, flag |-> FALSE, count |-> 0, error |-> ""]
ReturnsVoid == [NoResult EXCEPT !.kind = "undefined"]
ReturnsNull == [NoResult EXCEPT !.kind = "null"]
ReturnsString(str) == [NoResult EXCEPT !.kind = "string", !.val = str]
ReturnsBoolean(b) == [NoResult EXCEPT !.kind = "boolean", !.flag = b]
ReturnsArray(a) == [NoResult EXCEPT !.kind = "array", !.val = a]
ReturnsStatus(n, d) == [NoResult EXCEPT !.kind = "status", !.count = n, !.flag = d]
Throws(message) == [NoResult EXCEPT !.kind = "throw", !.error = message]

RECURSIVE Join(_)
\* The characters of a string as one piece of text (template literals)
Join(str) == IF str = <<>> THEN "" ELSE str[1] \o Join(Tail(str))

VaultDestroyedMessage == "Vault has been destroyed"
SecretNotFoundMessage(name) == "Secret '" \o Join(name) \o "' not found in vault"
BadDecryptMessage == "bad decrypt"

\* The fields of a SecretVault object
Vault(s, k, d, n) == [secrets |-> s, encryptionKey |-> k, isDestroyed |-> d,
                      randomDraws |-> n]
\* What a method did: the object after it, its outcome, and the key
\* material its cipher or decipher was created with.
Did(v, res, cipherKey) == [vault |-> v, result |-> res, cipherKey |-> cipherKey]

\* new SecretVault()
NewVault == Vault(<<>>, RandomBytes(1), FALSE, 1)

\* ---- SecretVault methods ----
\* store, were it to use one initialization vector drawn at construction
store_ReusesIv(v, key, value) ==
    IF v.isDestroyed THEN Did(v, Throws(VaultDestroyedMessage), NoCipher)
    ELSE LET iv == RandomBytes(1)
             encrypted == ToHex(Encrypt(v.encryptionKey, iv, Utf8Encode(value)))
             stored == <<ToHex(iv), Colon, encrypted>>
         IN  Did([v EXCEPT !.secrets = MapSet(@, key, stored), !.randomDraws = @ + 1],
                 ReturnsVoid, v.encryptionKey)

\* SecretVault.store
store(v, key, value) ==
    IF v.isDestroyed THEN Did(v, Throws(VaultDestroyedMessage), NoCipher)
    ELSE LET iv == RandomBytes(v.randomDraws + 1)
             encrypted == ToHex(Encrypt(v.encryptionKey, iv, Utf8Encode(value)))
             \* `${iv.toString('hex')}:${encrypted}`
             stored == <<ToHex(iv), Colon, encrypted>>
         IN  Did([v EXCEPT !.secrets = MapSet(@, key, stored), !.randomDraws = @ + 1],
                 ReturnsVoid, v.encryptionKey)

\* const stored = this.secrets.get(key); !stored
NotStored(m, key) == ~MapHas(m, key) \/ MapGet(m, key) = <<>>

\* The decryption of retrieve: split, decipher, decode
DecryptStored(v, stored) ==
    LET parts == Split(stored, Colon)
        iv == FromHex(parts[1][1])
        encrypted == FromHex(parts[2][1])
    IN  IF DecryptOk(v.encryptionKey, iv, encrypted)
        THEN Did(v, ReturnsString(Utf8Decode(Decrypt(v.encryptionKey, iv, encrypted))),
                 v.encryptionKey)
        ELSE Did(v, Throws(BadDecryptMessage), v.encryptionKey)

\* retrieve, were it to skip the isDestroyed check
retrieve_NoCheck(v, key) ==
    IF NotStored(v.secrets, key) THEN Did(v, ReturnsNull, NoCipher)
    ELSE DecryptStored(v, MapGet(v.secrets, key))

\* retrieve, were it to test the decrypted text the way it tests `stored`
retrieve_EmptyIsNull(v, key) ==
    IF v.isDestroyed THEN Did(v, Throws(VaultDestroyedMessage), NoCipher)
    ELSE IF NotStored(v.secrets, key) THEN Did(v, ReturnsNull, NoCipher)
    ELSE LET d == DecryptStored(v, MapGet(v.secrets, key))
         IN  IF d.result.kind = "string" /\ d.result.val = <<>>
             THEN Did(v, ReturnsNull, d.cipherKey)
             ELSE d

\* SecretVault.retrieve
retrieve(v, key) ==
    IF v.isDestroyed THEN Did(v, Throws(VaultDestroyedMessage), NoCipher)
    ELSE IF NotStored(v.secrets, key) THEN Did(v, ReturnsNull, NoCipher)
    ELSE DecryptStored(v, MapGet(v.secrets, key))

\* ---- reference.match(/\{\{secrets\.(\w+)\}\}/) ----
PlaceholderOpen == <<"{", "{", "s", "e", "c", "r", "e", "t", "s", ".">>
PlaceholderClose == <<"}", "}">>
\* \w
WordChars ==
    {"a", "b", "c", "d", "e", "f", "g", "h", "i", "j", "k", "l", "m", "n", "o", "p",
     "q", "r", "s", "t", "u", "v", "w", "x", "y", "z",
     "A", "B", "C", "D", "E", "F", "G", "H", "I", "J", "K", "L", "M", "N", "O", "P",
     "Q", "R", "S", "T", "U", "V", "W", "X", "Y", "Z",
     "0", "1", "2", "3", "4", "5", "6", "7", "8", "9", "_"}

\* The literal lit is in str at position i.
LiteralAt(str, i, lit) ==
    /\ i + Len(lit) - 1 <= Len(str)
    /\ SubSeq(str, i, i + Len(lit) - 1) = lit

RECURSIVE WordRun(_, _)
\* How many \w characters follow one another in str from position i on
WordRun(str, i) ==
    IF i <= Len(str) /\ str[i] \in WordChars THEN 1 + WordRun(str, i + 1) ELSE 0

\* The pattern matches str at position i: the \w+ takes the whole run of
\* word characters, and giving characters back cannot help, the next
\* character then being a word character and not '}'.
MatchAt(str, i) ==
    LET from == i + Len(PlaceholderOpen) IN
    /\ LiteralAt(str, i, PlaceholderOpen)
    /\ WordRun(str, from) >= 1
    /\ LiteralAt(str, from + WordRun(str, from), PlaceholderClose)

NoMatch == [found |-> FALSE, index |-> 0, group |-> <<>>, length |-> 0]
\* String.prototype.match without the g flag: the leftmost match and its group
Match(str) ==
    IF \E i \in 1 .. Len(str) : MatchAt(str, i)
    THEN LET i == CHOOSE j \in 1 .. Len(str) :
                      MatchAt(str, j) /\ \A h \in 1 .. (j - 1) : ~MatchAt(str, h)
             from == i + Len(PlaceholderOpen)
             run == WordRun(str, from)
         IN  [found |-> TRUE, index |-> i, group |-> SubSeq(str, from, from + run - 1),
              length |-> Len(PlaceholderOpen) + run + Len(PlaceholderClose)]
    ELSE NoMatch

\* resolve settled at once, or is suspended at `await this.retrieve(match[1])`
\* holding the retrieve call's outcome.
Settled(did) == [suspended |-> FALSE, did |-> did, name |-> <<>>]
Suspended(name, did) == [suspended |-> TRUE, did |-> did, name |-> name]

\* resolve, were it to look for the placeholder before the isDestroyed check
resolve_MatchFirst(v, reference) ==
    LET match == Match(reference) IN
    IF ~match.found THEN Settled(Did(v, ReturnsString(reference), NoCipher))
    ELSE IF v.isDestroyed THEN Settled(Did(v, Throws(VaultDestroyedMessage), NoCipher))
    ELSE Suspended(match.group, retrieve(v, match.group))

\* SecretVault.resolve up to its await (the call of retrieve runs within
\* the same synchronous stretch as the isDestroyed check)
resolve(v, reference) ==
    IF v.isDestroyed THEN Settled(Did(v, Throws(VaultDestroyedMessage), NoCipher))
    ELSE LET match == Match(reference) IN
         IF ~match.found THEN Settled(Did(v, ReturnsString(reference), NoCipher))
         ELSE Suspended(match.group, retrieve(v, match.group))

\* SecretVault.resolve from its await on: awaited is what retrieve gave
resolveResumed(name, awaited) ==
    IF awaited.kind = "throw" THEN awaited
    ELSE IF awaited.kind = "null" \/ awaited.val = <<>>
    THEN Throws(SecretNotFoundMessage(name))
    ELSE ReturnsString(awaited.val)

\* SecretVault.listKeys
listKeys(v) ==
    IF v.isDestroyed THEN Did(v, Throws(VaultDestroyedMessage), NoCipher)
    ELSE Did(v, ReturnsArray(MapKeys(v.secrets)), NoCipher)

\* SecretVault.has
has(v, key) == Did(v, ReturnsBoolean(MapHas(v.secrets, key)), NoCipher)

\* delete, were it to look the key up after deleting it
delete_ReportsAfter(v, key) ==
    Did([v EXCEPT !.secrets = MapDelete(@, key)],
        ReturnsBoolean(MapHas(MapDelete(v.secrets, key), key)), NoCipher)

\* SecretVault.delete
delete(v, key) ==
    Did([v EXCEPT !.secrets = MapDelete(@, key)], ReturnsBoolean(MapHas(v.secrets, key)),
        NoCipher)

\* destroy, were it to flip the flag
destroy_Toggles(v) ==
    Did([v EXCEPT !.secrets = MapClear(@), !.encryptionKey = ZeroBytes,
                  !.isDestroyed = ~@],
        ReturnsVoid, NoCipher)

\* destroy, were it to set the flag only
destroy_FlagOnly(v) == Did([v EXCEPT !.isDestroyed = TRUE], ReturnsVoid, NoCipher)

\* SecretVault.destroy
destroy(v) ==
    Did([v EXCEPT !.secrets = MapClear(@), !.encryptionKey = ZeroBytes,
                  !.isDestroyed = TRUE],
        ReturnsVoid, NoCipher)

\* SecretVault.getStatus
getStatus(v) == Did(v, ReturnsStatus(MapSize(v.secrets), v.isDestroyed), NoCipher)

\* ---- the calls made on the vault ----
\* '{{secrets.<name>}}'
Placeholder(name) == PlaceholderOpen \o name \o PlaceholderClose

\* The keys, values and references the callers pass
VaultKeys == {<<"k", "1">>, <<"m", "-", "k">>}
VaultValues == {<<>>, <<"v">>, <<HighSurrogate>>}
References ==
    {<<"t", "x", "t">>,
     Placeholder(<<"k", "1">>),
     <<"a", "=">> \o Placeholder(<<"k", "1">>) \o <<";">>,
     Placeholder(<<"m", "-", "k">>)}

\* The vault object as it is now
TheVault == Vault(secrets, encryptionKey, isDestroyed, randomDraws)

\* The vault object becomes v
VaultBecomes(v) ==
    /\ secrets' = v.secrets
    /\ encryptionKey' = v.encryptionKey
    /\ isDestroyed' = v.isDestroyed
    /\ randomDraws' = v.randomDraws

NoCall == [op |-> "none", key |-> <<>>, value |-> <<>>, reference |-> <<>>,
           result |-> NoResult, cipherKey |-> NoCipher,
           startedDestroyed |-> FALSE, endedDestroyed |-> FALSE]
\* A completed call: started / ended tell whether the vault was destroyed
\* when the call began and when it settled.
Call(op, key, value, reference, did, started, ended) ==
    [op |-> op, key |-> key, value |-> value, reference |-> reference,
     result |-> did.result, cipherKey |-> did.cipherKey,
     startedDestroyed |-> started, endedDestroyed |-> ended]

VaultInit ==
    /\ secrets = NewVault.secrets
    /\ encryptionKey = NewVault.encryptionKey
    /\ isDestroyed = NewVault.isDestroyed
    /\ randomDraws = NewVault.randomDraws
    /\ pending = <<>>
    /\ lastCall = NoCall

\* await vault.store(key, value)
Store ==
    /\ isDestroyed \/ randomDraws < MaxDraws
    /\ \E key \in VaultKeys, value \in VaultValues :
        LET d == store(TheVault, key, value) IN
        /\ VaultBecomes(d.vault)
        /\ lastCall' = Call("store", key, value, <<>>, d, isDestroyed, d.vault.isDestroyed)
    /\ UNCHANGED pending
    /\ UNCHANGED <<retryVars, dispatchVars, pollVars>>
    /\ UNCHANGED <<createVars, launchVars>>

\* await vault.retrieve(key)
Retrieve ==
    /\ \E key \in VaultKeys :
        LET d == retrieve(TheVault, key) IN
        /\ VaultBecomes(d.vault)
        /\ lastCall' = Call("retrieve", key, <<>>, <<>>, d, isDestroyed, d.vault.isDestroyed)
    /\ UNCHANGED pending
    /\ UNCHANGED <<retryVars, dispatchVars, pollVars>>
    /\ UNCHANGED <<createVars, launchVars>>

\* vault.resolve(reference) is called: it settles at once, or runs up to
\* its await and is suspended there.
Resolve ==
    /\ \E reference \in References :
        LET r == resolve(TheVault, reference) IN
        /\ VaultBecomes(r.did.vault)
        /\ IF r.suspended
           THEN /\ Len(pending) < MaxPending
                /\ pending' = Append(pending, [reference |-> reference, name |-> r.name,
                                               awaited |-> r.did.result,
                                               cipherKey |-> r.did.cipherKey])
                /\ UNCHANGED lastCall
           ELSE /\ lastCall' = Call("resolve", <<>>, <<>>, reference, r.did, isDestroyed,
                                    r.did.vault.isDestroyed)
                /\ UNCHANGED pending
    /\ UNCHANGED <<retryVars, dispatchVars, pollVars>>
    /\ UNCHANGED <<createVars, launchVars>>

\* The suspended resolve call first in line resumes and settles.
ResolveResumes ==
    /\ pending # <<>>
    /\ LET p == Head(pending) IN
        lastCall' = Call("resolve", <<>>, <<>>, p.reference,
                         Did(TheVault, resolveResumed(p.name, p.awaited), p.cipherKey),
                         FALSE, isDestroyed)
    /\ pending' = Tail(pending)
    /\ UNCHANGED <<secrets, encryptionKey, isDestroyed, randomDraws>>
    /\ UNCHANGED <<retryVars, dispatchVars, pollVars>>
    /\ UNCHANGED <<createVars, launchVars>>

\* vault.listKeys()
ListKeys ==
    /\ LET d == listKeys(TheVault) IN
        /\ VaultBecomes(d.vault)
        /\ lastCall' = Call("listKeys", <<>>, <<>>, <<>>, d, isDestroyed, d.vault.isDestroyed)
    /\ UNCHANGED pending
    /\ UNCHANGED <<retryVars, dispatchVars, pollVars>>
    /\ UNCHANGED <<createVars, launchVars>>

\* vault.has(key)
VaultHas ==
    /\ \E key \in VaultKeys :
        LET d == has(TheVault, key) IN
        /\ VaultBecomes(d.vault)
        /\ lastCall' = Call("has", key, <<>>, <<>>, d, isDestroyed, d.vault.isDestroyed)
    /\ UNCHANGED pending
    /\ UNCHANGED <<retryVars, dispatchVars, pollVars>>
    /\ UNCHANGED <<createVars, launchVars>>

\* vault.delete(key)
Delete ==
    /\ \E key \in VaultKeys :
        LET d == delete(TheVault, key) IN
        /\ VaultBecomes(d.vault)
        /\ lastCall' = Call("delete", key, <<>>, <<>>, d, isDestroyed, d.vault.isDestroyed)
    /\ UNCHANGED pending
    /\ UNCHANGED <<retryVars, dispatchVars, pollVars>>
    /\ UNCHANGED <<createVars, launchVars>>

\* vault.destroy()
Destroy ==
    /\ LET d == destroy(TheVault) IN
        /\ VaultBecomes(d.vault)
        /\ lastCall' = Call("destroy", <<>>, <<>>, <<>>, d, isDestroyed, d.vault.isDestroyed)
    /\ UNCHANGED pending
    /\ UNCHANGED <<retryVars, dispatchVars, pollVars>>
    /\ UNCHANGED <<createVars, launchVars>>

\* vault.getStatus()
GetStatus ==
    /\ LET d == getStatus(TheVault) IN
        /\ VaultBecomes(d.vault)
        /\ lastCall' = Call("getStatus", <<>>, <<>>, <<>>, d, isDestroyed, d.vault.isDestroyed)
    /\ UNCHANGED pending
    /\ UNCHANGED <<retryVars, dispatchVars, pollVars>>
    /\ UNCHANGED <<createVars, launchVars>>

VaultNext ==
    \/ Store
    \/ Retrieve
    \/ Resolve
    \/ ResolveResumes
    \/ ListKeys
    \/ VaultHas
    \/ Delete
    \/ Destroy
    \/ GetStatus

(***************************************************************************)
(* SupabaseMCPServer.waitForProjectReady (supabase/index.ts 426-458)       *)
(*                                                                         *)
(* Time is in milliseconds; clock is what Date.now() returns.              *)
(***************************************************************************)
\* const pollInterval = 5000
PollIntervalMs == 5000
\* maxWaitTime: number = 120000
DefaultMaxWaitTime == 120000
\* The maxWaitTime a caller passes (createProject passes none: the default)
MaxWaitTimes == {0, 2 * PollIntervalMs, DefaultMaxWaitTime}

\* How long a fetch takes to settle, and how long after its delay a timer fires
FetchDurations == {0, 2000}
TimerLateness == {0, 1000}

\* What a fetch of the project gives: an OK response with a status, a
\* response that is not OK, or a rejection.
FetchedStatus(status) == [kind |-> "ok", status |-> status]
FetchedNotOk == [kind |-> "not_ok", status |-> ""]
FetchRaised == [kind |-> "raised", status |-> ""]
ProjectStatuses == {"COMING_UP", "ACTIVE_HEALTHY", "INIT_FAILED"}
FetchOutcomes == {FetchedStatus(s) : s \in ProjectStatuses} \cup {FetchedNotOk, FetchRaised}

\* console.error lines of the poller
ReadyLine == [line |-> "ready", status |-> ""]
StatusLine(status) == [line |-> "status", status |-> status]

NoPollOutcome == [kind |-> "none", error |-> "", seconds |-> 0]
PollReturned == [kind |-> "returned", error |-> "", seconds |-> 0]
\* the message, were it to give the milliseconds as seconds
TimeoutError_Millis(maxWait) ==
    [kind |-> "threw", error |-> "did not become ready within", seconds |-> maxWait]
\* new Error(`Project ${projectId} did not become ready within ${maxWaitTime / 1000}s`)
\* (maxWaitTime a multiple of 1000 here)
TimeoutError(maxWait) ==
    [kind |-> "threw", error |-> "did not become ready within", seconds |-> maxWait \div 1000]

\* Date.now() - startTime < maxWaitTime
LoopCondition(now, start, maxWait) == now - start < maxWait

\* The body of the loop once the fetch settled with `fetched`: the lines
\* written, and whether the function returns or goes on to the setTimeout.
\* goes on without sleeping after a response that is not OK or a rejection
PollStep_NoSleepOnError(fetched) ==
    IF fetched.kind = "ok"
    THEN IF fetched.status = "ACTIVE_HEALTHY"
         THEN [log |-> <<ReadyLine>>, next |-> "return"]
         ELSE [log |-> <<StatusLine(fetched.status)>>, next |-> "sleep"]
    ELSE [log |-> <<>>, next |-> "loop"]

\* keeps polling whatever the status
PollStep_NeverReady(fetched) ==
    IF fetched.kind = "ok"
    THEN [log |-> <<StatusLine(fetched.status)>>, next |-> "sleep"]
    ELSE [log |-> <<>>, next |-> "sleep"]

PollStep(fetched) ==
    IF fetched.kind = "ok"
    THEN IF fetched.status = "ACTIVE_HEALTHY"
         THEN [log |-> <<ReadyLine>>, next |-> "return"]
         ELSE [log |-> <<StatusLine(fetched.status)>>, next |-> "sleep"]
    ELSE [log |-> <<>>, next |-> "sleep"]

\* The last three fetch outcomes, oldest first
Remember(window, fetched) ==
    IF Len(window) < 3 THEN Append(window, fetched) ELSE Append(Tail(window), fetched)

PollInit ==
    /\ maxWaitTime \in MaxWaitTimes
    /\ clock = 0
    /\ startTime = 0
    /\ pollPc = "check"
    /\ polls = 0
    /\ recent = <<>>
    /\ pollStart = 0
    /\ lastPollEnd = 0
    /\ pollLog = <<>>
    /\ pollOutcome = NoPollOutcome

\* The loop condition holds: the fetch is issued.
PollStarts ==
    /\ pollPc = "check"
    /\ LoopCondition(clock, startTime, maxWaitTime)
    /\ pollPc' = "fetching"
    /\ polls' = polls + 1
    /\ pollStart' = clock
    /\ UNCHANGED <<clock, startTime, maxWaitTime, recent, lastPollEnd, pollLog, pollOutcome>>
    /\ UNCHANGED <<retryVars, dispatchVars, vaultVars>>
    /\ UNCHANGED <<createVars, launchVars>>

\* What the loop body does once the try block is left with `fetched`, up
\* to the return or the setTimeout.
BodyEnds(fetched, now) ==
    LET step == PollStep(fetched) IN
    /\ clock' = now
    /\ recent' = Remember(recent, fetched)
    /\ pollLog' = step.log
    /\ pollPc' = CASE step.next = "return" -> "done"
                   [] step.next = "sleep" -> "sleeping"
                   [] OTHER -> "check"
    /\ pollOutcome' = IF step.next = "return" THEN PollReturned ELSE pollOutcome

\* await fetch(...) settles: with an OK response the function goes on to
\* await response.json(); with a response that is not OK, or a rejection,
\* the rest of the loop body runs.
FetchSettles ==
    /\ pollPc = "fetching"
    /\ \E took \in FetchDurations :
        /\ lastPollEnd' = clock + took
        /\ \/ /\ pollPc' = "reading"
              /\ clock' = clock + took
              /\ UNCHANGED <<recent, pollLog, pollOutcome>>
           \/ \E fetched \in {f \in FetchOutcomes : f.kind # "ok"} : BodyEnds(fetched, clock + took)
    /\ UNCHANGED <<startTime, maxWaitTime, polls, pollStart>>
    /\ UNCHANGED <<retryVars, dispatchVars, vaultVars>>
    /\ UNCHANGED <<createVars, launchVars>>

\* await response.json() settles, with the project or with a rejection
\* (a body that is no JSON); the rest of the loop body runs.
JsonSettles ==
    /\ pollPc = "reading"
    /\ \E fetched \in {f \in FetchOutcomes : f.kind # "not_ok"} :
        BodyEnds(fetched, clock)
    /\ UNCHANGED <<startTime, maxWaitTime, polls, pollStart, lastPollEnd>>
    /\ UNCHANGED <<retryVars, dispatchVars, vaultVars>>
    /\ UNCHANGED <<createVars, launchVars>>

\* The setTimeout(resolve, pollInterval) fires.
PollTimerFires ==
    /\ pollPc = "sleeping"
    /\ \E late \in TimerLateness : clock' = clock + PollIntervalMs + late
    /\ pollPc' = "check"
    /\ UNCHANGED <<startTime, maxWaitTime, polls, recent, pollStart, lastPollEnd, pollLog,
                   pollOutcome>>
    /\ UNCHANGED <<retryVars, dispatchVars, vaultVars>>
    /\ UNCHANGED <<createVars, launchVars>>

\* The loop condition fails: throw new Error(...)
PollTimesOut ==
    /\ pollPc = "check"
    /\ ~LoopCondition(clock, startTime, maxWaitTime)
    /\ pollPc' = "done"
    /\ pollOutcome' = TimeoutError(maxWaitTime)
    /\ UNCHANGED <<clock, startTime, maxWaitTime, polls, recent, pollStart, lastPollEnd,
                   pollLog>>
    /\ UNCHANGED <<retryVars, dispatchVars, vaultVars>>
    /\ UNCHANGED <<createVars, launchVars>>

PollNext ==
    \/ PollStarts
    \/ FetchSettles
    \/ JsonSettles
    \/ PollTimerFires
    \/ PollTimesOut

(***************************************************************************)
(* One create_project call, step by step (supabase/index.ts 187-287)       *)
(*                                                                         *)
(* createProject awaits, in order, withRetry around fetchWithRetrySupport  *)
(* and response.json() of what it returned (organizations, then the        *)
(* creation POST), waitForProjectReady, and withRetry and response.json()  *)
(* again (API keys).  The withRetry variables hold the running withRetry   *)
(* call, the poller variables the running waitForProjectReady call.        *)
(***************************************************************************)
\* What a fetch settles with: a response with a status, or a rejection
\* (the request or its response was lost).
HttpResponse(st) == [kind |-> "response", status |-> st]
FetchRejected == [kind |-> "rejected", status |-> Absent]
NoHttp == [kind |-> "none", status |-> Absent]
HttpStatuses == {200, 400, 429, 500, 502, 503, 504}
HttpOutcomes == {HttpResponse(st) : st \in HttpStatuses} \cup {FetchRejected}

\* response.ok
ResponseOk(fetched) == fetched.kind = "response" /\ fetched.status \in 200 .. 299

\* What reading a body can reject with: the stream of the response broke
\* off, the body is no JSON, or whatever else the response object rejects with.
TextRejections == {TypeError("terminated"), JSNull}
JsonRejections == {ErrObj("SyntaxError", "Unexpected end of JSON input", Absent, Absent), JSNull}

\* What await response.text() of a response that is not OK settles with.
TextSettlements == {Resolves("text")} \cup {Rejects(v) : v \in TextRejections}

\* anonKey and serviceRoleKey
Keys(anon, service) == [anon |-> anon, service |-> service]
NoKeys == Keys("", "")
AnonKey == "anon-api-key"
ServiceRoleKey == "service-role-api-key"

\* An entry of the body of the keys response (line 260): { name, api_key },
\* api_key undefined when the entry has none; or null.
KeyEntry(name, api_key) == [type |-> "object", name |-> name, api_key |-> api_key]
NullEntry == [type |-> "null", name |-> Undefined, api_key |-> Undefined]
KeyNames == {"anon", "service_role"}
KeyOf(name) == IF name = "anon" THEN AnonKey ELSE ServiceRoleKey
KeyEntries ==
    UNION {{KeyEntry(name, api_key) : api_key \in {KeyOf(name), "", Undefined}} :
              name \in KeyNames}
        \cup {NullEntry}
\* The bodies that are arrays: no entry, one, two.
KeysBodies ==
    {<<>>} \cup {<<a>> : a \in KeyEntries} \cup {<<a, b>> : a, b \in KeyEntries}
\* await response.json() resolved with an array
ResolvesArray(body) == [kind |-> "array", raise |-> JSUndefined, body |-> body]

\* What await response.json() settles with, by what the body holds:
\* the organizations (an array with an entry, an empty array, an object
\* that is no array, null),
OrgsSettlements ==
    {Resolves("organizations"), Resolves("empty"), Resolves("no_array"), Resolves("null")}
        \cup {Rejects(v) : v \in JsonRejections}
\* the created project (with its id, an object without id, null),
ProjectSettlements ==
    {Resolves("project"), Resolves("no_id"), Resolves("null")}
        \cup {Rejects(v) : v \in JsonRejections}
\* the API keys (an array of entries, an object that is no array, null).
KeysSettlements ==
    {ResolvesArray(body) : body \in KeysBodies}
        \cup {Resolves("no_array"), Resolves("null")}
        \cup {Rejects(v) : v \in JsonRejections}

\* fetchWithRetrySupport (retry.ts 57-74): the response if it is OK;
\* otherwise RetryableError(message, response.status) once response.text()
\* gave the body, and what response.text() rejected with when it did not;
\* a rejection of fetch goes through as it is.
fetchWithRetrySupport(fetched, body) ==
    IF fetched.kind = "rejected" THEN Threw(TypeError("fetch failed"))
    ELSE IF ~ResponseOk(fetched)
    THEN IF body.kind = "rejects" THEN Threw(body.raise)
         ELSE Threw(RetryableError("vendor message", fetched.status))
    ELSE Returned("response")

\* withRetry(fn, { label }): every option but the label is defaulted
DefaultPolicy ==
    Destructure([given |-> {}, maxRetries |-> 0, initialDelayMs |-> 0, retryOn |-> {}])

\* the loop body, were it to go on to the backoff after a success too
AttemptStep_GoesOnAfterSuccess(pol, att, result) ==
    IF att < pol.maxRetries
       /\ (\/ result.kind = "returned"
           \/ ~ReadRaises(result.error) /\ ShouldRetry(pol, att, result.error))
    THEN [next |-> "wait", delay |-> BackoffDelay(pol, att)]
    ELSE IF result.kind = "returned" THEN [next |-> "return", delay |-> NoTimer]
    ELSE [next |-> "throw", delay |-> NoTimer]

\* One iteration of the withRetry loop (retry.ts 33-47) once fn() settled
\* with result: return, set the backoff timer, or throw (reading
\* err.status of null or undefined throws out of the catch block).
AttemptStep(pol, att, result) ==
    IF result.kind = "returned" THEN [next |-> "return", delay |-> NoTimer]
    ELSE IF ~ReadRaises(result.error) /\ ShouldRetry(pol, att, result.error)
    THEN [next |-> "wait", delay |-> BackoffDelay(pol, att)]
    ELSE [next |-> "throw", delay |-> NoTimer]

\* Whether the vendor may have created the project when the creation POST
\* settled with `fetched`: it has when the response is OK; it may or may not
\* have when the response was lost or a gateway answered for it (502, 504);
\* it has not when the vendor itself refused.  The POST carries no
\* idempotency key: every delivered request creates a project.
Commits(step, fetched) ==
    IF step # "create" THEN {FALSE}
    ELSE IF ResponseOk(fetched) THEN {TRUE}
    ELSE IF fetched.kind = "rejected" \/ fetched.status \in {502, 504} THEN {FALSE, TRUE}
    ELSE {FALSE}

\* The arguments of the call: all fields, the name alone, none at all.
CreateArgs ==
    {ArgsObject(f) : f \in FullArgs("create_project")}
        \cup {ArgsObject(Restrict(f, {"name"})) : f \in FullArgs("create_project")}
        \cup {NoArgs}

\* the validation, were it to refuse the empty password only
ArgumentError_EmptyOnly(args) ==
    IF ~args.defined THEN DestructureTypeError
    ELSE IF ~Has(args, "db_password")
    THEN TypeError("Cannot read properties of undefined (reading 'length')")
    ELSE IF Len(args.val["db_password"]) = 0
    THEN Error("Database password must be at least 12 characters")
    ELSE JSUndefined

\* Lines 188-193: what is raised before any request, undefined if nothing.
ArgumentError(args) ==
    IF ~args.defined THEN DestructureTypeError
    ELSE IF ~Has(args, "db_password")
    THEN TypeError("Cannot read properties of undefined (reading 'length')")
    ELSE IF Len(args.val["db_password"]) < PasswordMinLength
    THEN Error("Database password must be at least 12 characters")
    ELSE JSUndefined

\* await this.waitForProjectReady(project.id), were its error swallowed
AfterWait_IgnoresTimeout(settled) == [next |-> "keys", error |-> JSUndefined]

\* await this.waitForProjectReady(project.id): go on when it returned, let
\* its error through when it threw.
AfterWait(settled) ==
    IF settled.kind = "returned" THEN [next |-> "keys", error |-> JSUndefined]
    ELSE [next |-> "throw", error |-> Error(settled.error)]

\* Lines 208-215, once await orgsResponse.json() settled with read: what
\* is raised, undefined when the first organization is taken.
OrganizationsError(read) ==
    CASE read.kind = "rejects" -> read.raise
      [] read.kind = "empty" ->
            Error("No organizations found. Create one at https://supabase.com/dashboard")
      [] read.kind = "no_array" -> PropertyReadTypeError(JSUndefined, "id")
      [] read.kind = "null" -> PropertyReadTypeError(JSNull, "length")
      [] OTHER -> JSUndefined

\* Lines 236-239, once await createResponse.json() settled with read: what
\* is raised (project.id of null is read for the log line), undefined when
\* the wait begins.
ProjectError(read) ==
    CASE read.kind = "rejects" -> read.raise
      [] read.kind = "null" -> PropertyReadTypeError(JSNull, "id")
      [] OTHER -> JSUndefined

\* project.id of the body read
ProjectIdOf(read) == IF read.kind = "project" THEN "ref1" ELSE Undefined

\* The fields of the result (lines 267-277) as JSON.stringify writes them:
\* project_id and project_ref are left out when project.id is undefined.
ResultFields(id) ==
    IF id = Undefined THEN CreateProjectFields \ {"project_id", "project_ref"}
    ELSE CreateProjectFields

\* keys.find((k) => k.name === name) (lines 261-262): the first entry of
\* that name, undefined when there is none; reading k.name of a null
\* entry on the way raises.
RECURSIVE find(_, _)
find(keys, name) ==
    IF keys = <<>> THEN [raises |-> FALSE, found |-> FALSE, entry |-> NullEntry]
    ELSE IF Head(keys).type = "null"
    THEN [raises |-> TRUE, found |-> FALSE, entry |-> NullEntry]
    ELSE IF Head(keys).name = name
    THEN [raises |-> FALSE, found |-> TRUE, entry |-> Head(keys)]
    ELSE find(Tail(keys), name)

\* keys.find(...)?.api_key || '' where the find raises nothing
KeyFound(keys, name) ==
    LET f == find(keys, name)
    IN IF f.found /\ TruthyString(f.entry.api_key) THEN f.entry.api_key ELSE ""

\* What the statements of the try block (lines 247-262) raise, undefined
\* when they complete: withRetry threw, keysResponse.json() rejected, the
\* body has no find (an object, null), or a find reads a null entry.
KeysError(settled, read) ==
    IF settled.kind = "threw" THEN settled.error
    ELSE CASE read.kind = "rejects" -> read.raise
           [] read.kind = "no_array" -> TypeError("keys.find is not a function")
           [] read.kind = "null" -> PropertyReadTypeError(JSNull, "find")
           [] read.kind = "array" ->
                IF find(read.body, "anon").raises \/ find(read.body, "service_role").raises
                THEN PropertyReadTypeError(JSNull, "name")
                ELSE JSUndefined
           [] OTHER -> JSUndefined

\* anonKey and serviceRoleKey as the try block leaves them: each find
\* assigns its key, or '' when no entry of the name has a non-empty
\* api_key; a statement that raises leaves the keys not yet assigned at ''.
KeysAssigned(settled, read) ==
    IF settled.kind = "threw" \/ read.kind # "array" THEN NoKeys
    ELSE IF find(read.body, "anon").raises THEN NoKeys
    ELSE IF find(read.body, "service_role").raises
    THEN Keys(KeyFound(read.body, "anon"), "")
    ELSE Keys(KeyFound(read.body, "anon"), KeyFound(read.body, "service_role"))

\* the keys fetch without the try / catch around it
AfterKeys_NoCatch(settled, read) ==
    IF KeysError(settled, read) # JSUndefined
    THEN [next |-> "throw", keys |-> KeysAssigned(settled, read),
          error |-> KeysError(settled, read)]
    ELSE [next |-> "return", keys |-> KeysAssigned(settled, read), error |-> JSUndefined]

\* Lines 244-265: the try block and its catch, which logs a warning and
\* goes on: the result is built whatever the try block raised.
AfterKeys(settled, read) ==
    [next |-> "return", keys |-> KeysAssigned(settled, read), error |-> JSUndefined]

\* a withRetry call begins
BeginRetry ==
    /\ rpc' = "attempt"
    /\ policy' = DefaultPolicy
    /\ attempt' = 0
    /\ lastError' = NoAttemptsError
    /\ timer' = NoTimer
    /\ invocations' = 0
    /\ waits' = <<>>
    /\ raised' = <<>>
    /\ outcome' = NoOutcome
    /\ lastHttp' = NoHttp

\* the withRetry call is over and its locals are gone
EndRetry ==
    /\ rpc' = "done"
    /\ policy' = DefaultPolicy
    /\ attempt' = 0
    /\ lastError' = NoAttemptsError
    /\ timer' = NoTimer
    /\ invocations' = 0
    /\ waits' = <<>>
    /\ raised' = <<>>
    /\ outcome' = NoOutcome
    /\ lastHttp' = NoHttp

\* createProject throws err: the catch block of the request handler
CreateFails(err) ==
    /\ cpPc' = "done"
    /\ lastHandler' = Throw(err, IF cpTrace # <<>> THEN FrameAt(cpPc) ELSE Fresh, inst)
    /\ lastResp' = CatchUnknown(err)

CreateInit ==
    /\ server = "supabase"
    /\ config \in Configs(server)
    /\ inst = NewServer(config)
    /\ \E args \in CreateArgs : lastReq = [name |-> "create_project", args |-> args]
    /\ lastEnv = IdleEnv
    /\ lastResp = NoResponse
    /\ lastHandler = NoHandler
    /\ failedEarlier = FALSE
    /\ environment = EnvironmentOf(config)
    /\ phase = "serving"
    /\ exitCode = Absent
    /\ lastList = NoListing
    /\ inflight = {}
    /\ cpPc = "validate"
    /\ cpTrace = <<>>
    /\ projects = 0
    /\ projectId = Undefined
    /\ keysRead = NoSettlement
    /\ cpKeys = NoKeys
    /\ lastHttp = NoHttp

\* Lines 188-197: the arguments are taken apart and the password checked;
\* then the organization lookup begins, or the creation when an
\* organization id is configured.
CpValidates ==
    /\ cpPc = "validate"
    /\ IF ArgumentError(lastReq.args) # JSUndefined
       THEN /\ CreateFails(ArgumentError(lastReq.args))
            /\ UNCHANGED <<retryVars, lastHttp>>
       ELSE /\ cpPc' = IF TruthyString(inst.organizationId) THEN "create" ELSE "orgs"
            /\ BeginRetry
            /\ UNCHANGED <<lastHandler, lastResp>>
    /\ UNCHANGED <<server, config, inst, lastReq, lastEnv, failedEarlier, environment,
                   phase, exitCode, lastList, inflight>>
    /\ UNCHANGED <<cpTrace, projects, projectId, keysRead, cpKeys>>
    /\ UNCHANGED <<vaultVars, pollVars, launchVars>>

\* fetchWithRetrySupport settled with result: the loop body of withRetry
\* returns, arms the backoff timer or throws.
AttemptEnds(result) ==
    LET step == AttemptStep(policy, attempt, result) IN
    /\ raised' = IF result.kind = "threw" THEN Append(raised, result.error) ELSE raised
    /\ lastError' = IF result.kind = "threw" THEN result.error ELSE lastError
    /\ timer' = step.delay
    /\ rpc' = IF step.next = "wait" THEN "waiting" ELSE "done"
    /\ outcome' = CASE step.next = "return" -> result
                    [] step.next = "throw" -> Threw(CatchThrows(result.error))
                    [] OTHER -> outcome

\* One attempt of the running withRetry: the fetch of fetchWithRetrySupport
\* settles (retry.ts 61).  With a response that is not OK the function goes
\* on to await response.text(); otherwise it settles and the loop body of
\* withRetry runs.
FetchAttempt ==
    /\ cpPc \in {"orgs", "create", "keys"}
    /\ rpc = "attempt"
    /\ LoopContinues(policy, attempt)
    /\ \E fetched \in HttpOutcomes :
        \E committed \in Commits(cpPc, fetched) :
          /\ invocations' = invocations + 1
          /\ lastHttp' = fetched
          /\ projects' = IF committed THEN projects + 1 ELSE projects
          /\ cpTrace' = IF invocations = 0 THEN Append(cpTrace, cpPc) ELSE cpTrace
          /\ IF fetched.kind = "response" /\ ~ResponseOk(fetched)
             THEN /\ rpc' = "body"
                  /\ UNCHANGED <<raised, lastError, timer, outcome>>
             ELSE AttemptEnds(fetchWithRetrySupport(fetched, NoSettlement))
    /\ UNCHANGED <<policy, attempt, waits>>
    /\ UNCHANGED <<cpPc, projectId, keysRead, cpKeys>>
    /\ UNCHANGED <<dispatchVars, vaultVars, pollVars, launchVars>>

\* await response.text() settles (retry.ts 63), with the body of the
\* response that was not OK or with a rejection: fetchWithRetrySupport
\* throws its RetryableError, or what text() rejected with, and the loop
\* body of withRetry runs.
BodySettles ==
    /\ cpPc \in {"orgs", "create", "keys"}
    /\ rpc = "body"
    /\ \E body \in TextSettlements : AttemptEnds(fetchWithRetrySupport(lastHttp, body))
    /\ UNCHANGED <<policy, attempt, waits, invocations>>
    /\ UNCHANGED createVars
    /\ UNCHANGED <<dispatchVars, vaultVars, pollVars, launchVars>>

\* Lines 198-208: withRetry of the organization lookup settled: its error
\* goes through, or orgsResponse.json() is called and awaited.
CpOrgsSettled ==
    /\ cpPc = "orgs"
    /\ rpc = "done"
    /\ IF outcome.kind = "threw"
       THEN CreateFails(outcome.error)
       ELSE /\ cpPc' = "orgs_body"
            /\ UNCHANGED <<lastHandler, lastResp>>
    /\ UNCHANGED <<server, config, inst, lastReq, lastEnv, failedEarlier, environment,
                   phase, exitCode, lastList, inflight>>
    /\ UNCHANGED <<retryVars, lastHttp>>
    /\ UNCHANGED <<cpTrace, projects, projectId, keysRead, cpKeys>>
    /\ UNCHANGED <<vaultVars, pollVars, launchVars>>

\* Lines 208-218: await orgsResponse.json() settled: the first
\* organization is taken and the creation begins, or an error is raised.
CpOrgsRead ==
    /\ cpPc = "orgs_body"
    /\ \E read \in OrgsSettlements :
        IF OrganizationsError(read) # JSUndefined
        THEN /\ CreateFails(OrganizationsError(read))
             /\ UNCHANGED <<retryVars, lastHttp>>
        ELSE /\ cpPc' = "create"
             /\ BeginRetry
             /\ UNCHANGED <<lastHandler, lastResp>>
    /\ UNCHANGED <<server, config, inst, lastReq, lastEnv, failedEarlier, environment,
                   phase, exitCode, lastList, inflight>>
    /\ UNCHANGED <<cpTrace, projects, projectId, keysRead, cpKeys>>
    /\ UNCHANGED <<vaultVars, pollVars, launchVars>>

\* Lines 218-236: withRetry of the creation settled: its error goes
\* through, or createResponse.json() is called and awaited.
CpCreateSettled ==
    /\ cpPc = "create"
    /\ rpc = "done"
    /\ IF outcome.kind = "threw"
       THEN CreateFails(outcome.error)
       ELSE /\ cpPc' = "create_body"
            /\ UNCHANGED <<lastHandler, lastResp>>
    /\ UNCHANGED <<server, config, inst, lastReq, lastEnv, failedEarlier, environment,
                   phase, exitCode, lastList, inflight>>
    /\ UNCHANGED <<retryVars, lastHttp>>
    /\ UNCHANGED <<cpTrace, projects, projectId, keysRead, cpKeys>>
    /\ UNCHANGED <<vaultVars, pollVars, launchVars>>

\* Lines 236-241: await createResponse.json() settled: waitForProjectReady
\* is called with project.id, or an error is raised.
CpCreateRead ==
    /\ cpPc = "create_body"
    /\ \E read \in ProjectSettlements :
        IF ProjectError(read) # JSUndefined
        THEN /\ CreateFails(ProjectError(read))
             /\ UNCHANGED <<retryVars, lastHttp, cpTrace, projectId, pollVars>>
        ELSE /\ cpPc' = "wait"
             /\ cpTrace' = Append(cpTrace, "wait")
             /\ projectId' = ProjectIdOf(read)
             /\ EndRetry
             /\ pollPc' = "check"
             /\ startTime' = clock
             /\ UNCHANGED <<clock, maxWaitTime, polls, recent, pollStart, lastPollEnd,
                            pollLog, pollOutcome>>
             /\ UNCHANGED <<lastHandler, lastResp>>
    /\ UNCHANGED <<server, config, inst, lastReq, lastEnv, failedEarlier, environment,
                   phase, exitCode, lastList, inflight>>
    /\ UNCHANGED <<projects, keysRead, cpKeys>>
    /\ UNCHANGED <<vaultVars, launchVars>>

\* Lines 241-260: waitForProjectReady settled; its locals are gone.  The
\* keys fetch begins, or the timeout error goes through.
CpWaitSettled ==
    /\ cpPc = "wait"
    /\ pollPc = "done"
    /\ IF AfterWait(pollOutcome).next = "throw"
       THEN /\ CreateFails(AfterWait(pollOutcome).error)
            /\ UNCHANGED <<retryVars, lastHttp>>
       ELSE /\ cpPc' = "keys"
            /\ BeginRetry
            /\ UNCHANGED <<lastHandler, lastResp>>
    /\ clock' = 0
    /\ startTime' = 0
    /\ polls' = 0
    /\ recent' = <<>>
    /\ pollStart' = 0
    /\ lastPollEnd' = 0
    /\ pollLog' = <<>>
    /\ UNCHANGED <<pollPc, maxWaitTime, pollOutcome>>
    /\ UNCHANGED <<server, config, inst, lastReq, lastEnv, failedEarlier, environment,
                   phase, exitCode, lastList, inflight>>
    /\ UNCHANGED <<cpTrace, projects, projectId, keysRead, cpKeys>>
    /\ UNCHANGED <<vaultVars, launchVars>>

\* Lines 262-286: the try block is left with the keys as `after` has them:
\* the result is built and returned (were there no catch block, what the
\* try block raised would go through).
KeysEnd(after) ==
    IF after.next = "throw"
    THEN /\ CreateFails(after.error)
         /\ UNCHANGED cpKeys
    ELSE /\ cpPc' = "done"
         /\ cpKeys' = after.keys
         /\ lastHandler' = Return(ResultFields(projectId), FrameAt(cpPc), inst)
         /\ lastResp' = SuccessResponse(ResultFields(projectId))

\* Lines 247-286: withRetry of the keys fetch settled: keysResponse.json()
\* is called and awaited, or the catch block runs and the result is returned.
CpKeysSettled ==
    /\ cpPc = "keys"
    /\ rpc = "done"
    /\ IF outcome.kind = "threw"
       THEN KeysEnd(AfterKeys(outcome, NoSettlement))
       ELSE /\ cpPc' = "keys_body"
            /\ UNCHANGED <<cpKeys, lastHandler, lastResp>>
    /\ UNCHANGED <<server, config, inst, lastReq, lastEnv, failedEarlier, environment,
                   phase, exitCode, lastList, inflight>>
    /\ UNCHANGED <<retryVars, lastHttp, cpTrace, projects, projectId, keysRead>>
    /\ UNCHANGED <<vaultVars, pollVars, launchVars>>

\* Lines 260-286: await keysResponse.json() settled: the two finds run, or
\* the catch block does; the result is returned.
CpKeysRead ==
    /\ cpPc = "keys_body"
    /\ \E read \in KeysSettlements :
        /\ keysRead' = read
        /\ KeysEnd(AfterKeys(outcome, read))
    /\ UNCHANGED <<server, config, inst, lastReq, lastEnv, failedEarlier, environment,
                   phase, exitCode, lastList, inflight>>
    /\ UNCHANGED <<retryVars, lastHttp, cpTrace, projects, projectId>>
    /\ UNCHANGED <<vaultVars, pollVars, launchVars>>

CreateNext ==
    \/ CpValidates
    \/ FetchAttempt
    \/ BodySettles
    \/ TimerFires
    \/ CpOrgsSettled
    \/ CpOrgsRead
    \/ CpCreateSettled
    \/ CpCreateRead
    \/ PollStarts
    \/ FetchSettles
    \/ JsonSettles
    \/ PollTimerFires
    \/ PollTimesOut
    \/ CpWaitSettled
    \/ CpKeysSettled
    \/ CpKeysRead

(***************************************************************************)
(* .devcontainer/auto-launch-claude.sh, run once per terminal attachment   *)
(*                                                                         *)
(* Each attachment runs the script as a process of its own; the processes  *)
(* share the home directory (the flag file) and the installed programs.    *)
(***************************************************************************)
Attachments == 1 .. MaxAttachments

\* An attachment's position: the line it is about to run, and whether
\* ANTHROPIC_API_KEY was non-empty when it sourced the environment.
At(line, key) == [at |-> line, key |-> key]
NotAttached == At("none", FALSE)
Exited == At("exited", FALSE)

LaunchInit ==
    /\ flagFile = FALSE
    /\ cliInstalled \in BOOLEAN
    /\ installWorks \in BOOLEAN
    /\ apiKeySet \in BOOLEAN
    /\ attachPc = [i \in Attachments |-> NotAttached]
    /\ launches = 0

Moves(i, to) == attachPc' = [attachPc EXCEPT ![i] = to]

\* A terminal attaches: postAttachCommand starts the script.
Attach(i) ==
    /\ attachPc[i] = NotAttached
    /\ Moves(i, At("flag", FALSE))
    /\ UNCHANGED <<flagFile, cliInstalled, installWorks, apiKeySet, launches>>
    /\ UNCHANGED <<retryVars, dispatchVars, vaultVars, pollVars, createVars>>

\* Lines 8-27: exit 0 if the flag file exists; otherwise source the
\* environment.
CheckFlag(i) ==
    /\ attachPc[i].at = "flag"
    /\ Moves(i, IF flagFile THEN Exited ELSE At("cli", apiKeySet))
    /\ UNCHANGED <<flagFile, cliInstalled, installWorks, apiKeySet, launches>>
    /\ UNCHANGED <<retryVars, dispatchVars, vaultVars, pollVars, createVars>>

\* Line 30: command -v claude
CheckCli(i) ==
    /\ attachPc[i].at = "cli"
    /\ Moves(i, At(IF cliInstalled THEN "key" ELSE "install", attachPc[i].key))
    /\ UNCHANGED <<flagFile, cliInstalled, installWorks, apiKeySet, launches>>
    /\ UNCHANGED <<retryVars, dispatchVars, vaultVars, pollVars, createVars>>

\* Lines 31-38: npm install -g; exit 0 if it fails.
Install(i) ==
    /\ attachPc[i].at = "install"
    /\ IF installWorks
       THEN /\ cliInstalled' = TRUE
            /\ Moves(i, At("key", attachPc[i].key))
       ELSE /\ Moves(i, Exited)
            /\ UNCHANGED cliInstalled
    /\ UNCHANGED <<flagFile, installWorks, apiKeySet, launches>>
    /\ UNCHANGED <<retryVars, dispatchVars, vaultVars, pollVars, createVars>>

\* Lines 42-57: exit 0 if ANTHROPIC_API_KEY is empty.
CheckKey(i) ==
    /\ attachPc[i].at = "key"
    /\ Moves(i, IF attachPc[i].key THEN At("touch", TRUE) ELSE Exited)
    /\ UNCHANGED <<flagFile, cliInstalled, installWorks, apiKeySet, launches>>
    /\ UNCHANGED <<retryVars, dispatchVars, vaultVars, pollVars, createVars>>

\* Line 60: touch "$HOME/.shipme-provisioned"
Touch(i) ==
    /\ attachPc[i].at = "touch"
    /\ flagFile' = TRUE
    /\ Moves(i, At("launch", TRUE))
    /\ UNCHANGED <<cliInstalled, installWorks, apiKeySet, launches>>
    /\ UNCHANGED <<retryVars, dispatchVars, vaultVars, pollVars, createVars>>

\* Line 75: claude -p ... starts.
Launch(i) ==
    /\ attachPc[i].at = "launch"
    /\ launches' = launches + 1
    /\ Moves(i, At("running", TRUE))
    /\ UNCHANGED <<flagFile, cliInstalled, installWorks, apiKeySet>>
    /\ UNCHANGED <<retryVars, dispatchVars, vaultVars, pollVars, createVars>>

\* Lines 78-84: claude exited; the script ends.
LaunchEnds(i) ==
    /\ attachPc[i].at = "running"
    /\ Moves(i, Exited)
    /\ UNCHANGED <<flagFile, cliInstalled, installWorks, apiKeySet, launches>>
    /\ UNCHANGED <<retryVars, dispatchVars, vaultVars, pollVars, createVars>>

\* The API key is written to the environment file between attachments.
KeyProvisioned ==
    /\ ~apiKeySet
    /\ apiKeySet' = TRUE
    /\ UNCHANGED <<flagFile, cliInstalled, installWorks, attachPc, launches>>
    /\ UNCHANGED <<retryVars, dispatchVars, vaultVars, pollVars, createVars>>

LaunchNext ==
    \/ \E i \in Attachments : Attach(i)
    \/ \E i \in Attachments : CheckFlag(i)
    \/ \E i \in Attachments : CheckCli(i)
    \/ \E i \in Attachments : Install(i)
    \/ \E i \in Attachments : CheckKey(i)
    \/ \E i \in Attachments : Touch(i)
    \/ \E i \in Attachments : Launch(i)
    \/ \E i \in Attachments : LaunchEnds(i)
    \/ KeyProvisioned

(***************************************************************************)
(* Specifications                                                          *)
(***************************************************************************)
\* The dispatch variables while only withRetry is looked at.
DispatchIdle ==
    /\ server = "supabase"
    /\ config = [accessToken |-> "token", organizationId |-> Undefined]
    /\ inst = NewServer(config)
    /\ lastReq = NoRequest
    /\ lastEnv = IdleEnv
    /\ lastResp = NoResponse
    /\ lastHandler = NoHandler
    /\ failedEarlier = FALSE
    /\ environment = EnvironmentOf(config)
    /\ phase = "serving"
    /\ exitCode = Absent
    /\ lastList = NoListing
    /\ inflight = {}

\* The withRetry variables while only the dispatch is looked at.
RetryIdle ==
    /\ policy = Destructure([given |-> {}, maxRetries |-> 0, initialDelayMs |-> 0,
                             retryOn |-> {}])
    /\ rpc = "done"
    /\ attempt = 0
    /\ lastError = NoAttemptsError
    /\ timer = NoTimer
    /\ invocations = 0
    /\ waits = <<>>
    /\ raised = <<>>
    /\ outcome = NoOutcome

\* The vault variables while no vault is looked at.
VaultIdle ==
    /\ secrets = <<>>
    /\ encryptionKey = RandomBytes(1)
    /\ isDestroyed = FALSE
    /\ randomDraws = 1
    /\ pending = <<>>
    /\ lastCall = NoCall

\* The poller variables while no poller is looked at.
PollIdle ==
    /\ maxWaitTime = DefaultMaxWaitTime
    /\ clock = 0
    /\ startTime = 0
    /\ pollPc = "done"
    /\ polls = 0
    /\ recent = <<>>
    /\ pollStart = 0
    /\ lastPollEnd = 0
    /\ pollLog = <<>>
    /\ pollOutcome = NoPollOutcome

\* The create_project variables while no call is followed step by step.
CreateIdle ==
    /\ cpPc = "idle"
    /\ cpTrace = <<>>
    /\ projects = 0
    /\ projectId = Undefined
    /\ keysRead = NoSettlement
    /\ cpKeys = NoKeys
    /\ lastHttp = NoHttp

\* The launch script variables while no terminal attaches.
LaunchIdle ==
    /\ flagFile = FALSE
    /\ cliInstalled = TRUE
    /\ installWorks = TRUE
    /\ apiKeySet = TRUE
    /\ attachPc = [i \in Attachments |-> Exited]
    /\ launches = 0

\* withRetry alone
InitRetry ==
    /\ RetryInit
    /\ DispatchIdle
    /\ VaultIdle
    /\ PollIdle
    /\ CreateIdle
    /\ LaunchIdle
SpecRetry == InitRetry /\ [][RetryNext]_vars

\* one server process alone
InitDispatch ==
    /\ DispatchInit
    /\ RetryIdle
    /\ VaultIdle
    /\ PollIdle
    /\ CreateIdle
    /\ LaunchIdle
SpecDispatch == InitDispatch /\ [][DispatchNext]_vars

\* one server process from its start
InitStartup ==
    /\ StartupInit
    /\ RetryIdle
    /\ VaultIdle
    /\ PollIdle
    /\ CreateIdle
    /\ LaunchIdle
SpecStartup == InitStartup /\ [][StartupNext]_vars

\* one vault alone
InitVault ==
    /\ VaultInit
    /\ RetryIdle
    /\ DispatchIdle
    /\ PollIdle
    /\ CreateIdle
    /\ LaunchIdle
SpecVault == InitVault /\ [][VaultNext]_vars

\* one waitForProjectReady call alone
InitPoll ==
    /\ PollInit
    /\ RetryIdle
    /\ DispatchIdle
    /\ VaultIdle
    /\ CreateIdle
    /\ LaunchIdle
SpecPoll == InitPoll /\ [][PollNext]_vars
\* every fetch settles, every timer fires, and the code between them runs
SpecPollFair == SpecPoll /\ WF_vars(PollNext)

\* one create_project call, from the arguments to the envelope
InitCreate ==
    /\ CreateInit
    /\ RetryIdle
    /\ VaultIdle
    /\ PollIdle
    /\ LaunchIdle
SpecCreate == InitCreate /\ [][CreateNext]_vars

\* the terminal attachments of one environment
InitLaunch ==
    /\ LaunchInit
    /\ RetryIdle
    /\ DispatchIdle
    /\ VaultIdle
    /\ PollIdle
    /\ CreateIdle
SpecLaunch == InitLaunch /\ [][LaunchNext]_vars

(***************************************************************************)
(* Properties of the tool dispatch (SpecDispatch)                          *)
(***************************************************************************)
\* A call of a tool the server registers was handled.
RegisteredCall == lastResp.kind # "none" /\ lastReq.name \in ToolNames(server)
\* A call of a name the server does not register was handled.
UnregisteredCall == lastResp.kind # "none" /\ lastReq.name \notin ToolNames(server)

\* The response is a Failure envelope with an error message.
FailureEnvelope(resp) ==
    /\ resp.kind = "content"
    /\ resp.items = 1
    /\ resp.itemType = "text"
    /\ ~resp.success
    /\ "error" \in resp.keys
    /\ resp.error # Undefined

\* C1: whatever a tool handler raises (an Error, a non-Error object, a string,
\* null, undefined), the request handler returns a Failure envelope with an
\* error message, the message of the raised Error when an Error was raised,
\* and nothing is raised out of the request handler.
C1_HandlerFailureEnveloped ==
    (RegisteredCall /\ lastHandler.kind = "throw") =>
        /\ FailureEnvelope(lastResp)
        /\ (InstanceofError(lastHandler.error) =>
                lastResp.error = lastHandler.error.message)

\* C2: a call of a name that is not a registered tool gets a Failure envelope
\* (success = false with an error message) and is never raised to the
\* transport, whatever the arguments; no handler runs and no vendor request
\* is issued.
C2_UnknownToolFailure ==
    UnregisteredCall =>
        /\ FailureEnvelope(lastResp)
        /\ lastResp.error = "Unknown tool: " \o lastReq.name
        /\ ~lastHandler.vendor

\* C2 witness: unregistered names were called, with and without arguments,
\* on a server; here "toString" with an arguments object on the GitHub server.
C2_Witness ==
    /\ UnregisteredCall
    /\ server = "github"
    /\ lastReq.name = "toString"
    /\ lastReq.args.defined
    /\ FailureEnvelope(lastResp)

\* C3: every response to a tool call is {content: [one text item]} whose
\* envelope is success = true with the result fields, or success = false with
\* an error field holding a message; success = false without an error field
\* is never produced.
C3_EnvelopeShape ==
    lastResp.kind # "none" =>
        /\ lastResp.kind = "content"
        /\ lastResp.items = 1
        /\ lastResp.itemType = "text"
        /\ (lastResp.success => "error" \notin lastResp.keys)
        /\ (~lastResp.success => "error" \in lastResp.keys /\ lastResp.error # Undefined)

\* The arguments of the last call omit a field the tool's inputSchema requires.
MissingRequired ==
    \/ ~lastReq.args.defined
    \/ Required(lastReq.name) \ DOMAIN lastReq.args.val # {}

\* C4: a call whose arguments omit a required field gets a Failure at the
\* dispatch boundary, before the handler runs: no vendor request is issued.
C4_MissingRequiredRejected ==
    (RegisteredCall /\ MissingRequired) =>
        /\ FailureEnvelope(lastResp)
        /\ ~lastHandler.vendor

\* C5: after any sequence of calls, failed ones included and suspended ones
\* in between, the server object is as constructed and the last call was
\* answered as a fresh instance answers it from the same await on the same
\* settlement: the dispatch keeps no state of its own between calls.
C5_DispatchStateless ==
    /\ inst = NewServer(config)
    /\ (lastResp.kind # "none" =>
            lastResp = CallToolRequestHandler(server, NewServer(config), lastReq.name,
                                              lastReq.args, lastEnv.frame,
                                              lastEnv.settled).response)

\* C5 witness: after an earlier call ended in a Failure, create_project on a
\* Supabase server without a configured organization looked the organization
\* up and succeeded.
C5_Witness ==
    /\ failedEarlier
    /\ server = "supabase"
    /\ config.organizationId = Undefined
    /\ lastReq.name = "create_project"
    /\ lastResp.kind = "content"
    /\ lastResp.success

(***************************************************************************)
(* Properties of withRetry (SpecRetry)                                     *)
(***************************************************************************)
\* The status code a failure carries: its status, else its statusCode; a
\* failure whose status reads 0 or is missing carries none. Absent when none.
StatusCarried(e) ==
    IF e.status # Absent /\ e.status # 0 THEN e.status
    ELSE IF e.statusCode # Absent /\ e.statusCode # 0 THEN e.statusCode
    ELSE Absent

\* A failure object that carries no status code.
NoStatusFailure(e) == e.type = "object" /\ StatusCarried(e) = Absent
\* A failure object that carries a status code of the policy's retryable set.
RetryableStatusFailure(e) == e.type = "object" /\ StatusCarried(e) \in policy.retryOn
\* A failure object that carries a status code outside the retryable set.
NonRetryableFailure(e) ==
    e.type = "object" /\ StatusCarried(e) # Absent /\ StatusCarried(e) \notin policy.retryOn
\* A retryable failure.
RetryableFailure(e) == NoStatusFailure(e) \/ RetryableStatusFailure(e)

\* initialDelay * 2^i for the wait that follows failed attempt i (zero-indexed)
ExpectedWait(i) == policy.initialDelayMs * Pow2(i)

\* C6: for a policy (maxRetries >= 0) the operation is invoked at least once
\* and at most maxRetries + 1 times; with maxRetries = 0 it is invoked exactly
\* once and withRetry never waits.
C6_AttemptBounds ==
    policy.maxRetries >= 0 =>
        /\ invocations <= policy.maxRetries + 1
        /\ (rpc = "done" => invocations >= 1)
        /\ (policy.maxRetries = 0 =>
                /\ waits = <<>>
                /\ timer = NoTimer
                /\ rpc # "waiting"
                /\ (rpc = "done" => invocations = 1))

\* C6 witness: a run that used all maxRetries + 1 attempts, with a retry.
C6_Witness ==
    /\ rpc = "done"
    /\ policy.maxRetries >= 1
    /\ invocations = policy.maxRetries + 1

\* C7: while the operation has failed k <= maxRetries times, each time with a
\* retryable failure, withRetry has not given up; and when the operation then
\* succeeds, withRetry returns after exactly k + 1 invocations, having waited
\* exactly initialDelay * 2^i after failed attempt i (zero-indexed).
C7_RetryThenSucceed ==
    /\ ((Len(raised) <= policy.maxRetries /\ \A i \in 1 .. Len(raised) : RetryableFailure(raised[i]))
            => outcome.kind # "threw")
    /\ (outcome.kind = "returned" =>
            /\ invocations = Len(raised) + 1
            /\ Len(waits) = Len(raised)
            /\ \A i \in 1 .. Len(waits) : waits[i] = ExpectedWait(i - 1))

\* C7 witness: two failures with a retryable status, then success on the
\* third invocation, the waits being initialDelay and 2 * initialDelay.
C7_Witness ==
    /\ outcome.kind = "returned"
    /\ Len(raised) = 2
    /\ RetryableStatusFailure(raised[1])
    /\ RetryableStatusFailure(raised[2])
    /\ invocations = 3
    /\ policy.initialDelayMs > 0
    /\ waits = <<policy.initialDelayMs, 2 * policy.initialDelayMs>>

\* C8: an attempt that fails with a status code outside the retryable set is
\* the last one: withRetry fails with that failure at once, without a wait and
\* without another invocation, however many attempts remain.
C8_NonRetryableFailsFast ==
    \A i \in 1 .. Len(raised) :
        NonRetryableFailure(raised[i]) =>
            /\ i = Len(raised)
            /\ invocations = i
            /\ rpc = "done"
            /\ outcome = Threw(raised[i])
            /\ timer = NoTimer
            /\ Len(waits) = i - 1

\* C8 witness: the second attempt failed with a status outside the retryable
\* set while attempts remained.
C8_Witness ==
    /\ Len(raised) = 2
    /\ NonRetryableFailure(raised[2])
    /\ policy.maxRetries >= 2
    /\ rpc = "done"

\* C9: an attempt that fails with a failure carrying no status code, while
\* attempts remain, is not propagated: withRetry waits the backoff delay
\* initialDelay * 2^i and then invokes the operation again.
C9_NoStatusIsTransient ==
    \A i \in 1 .. Len(raised) :
        (NoStatusFailure(raised[i]) /\ i <= policy.maxRetries) =>
            /\ (i = Len(raised) => outcome.kind # "threw")
            /\ (i = Len(raised) /\ rpc = "waiting" => timer = ExpectedWait(i - 1))
            /\ (i = Len(raised) /\ rpc = "attempt" =>
                    attempt = i /\ LoopContinues(policy, attempt))
            /\ (i < Len(raised) \/ rpc # "waiting" =>
                    Len(waits) >= i /\ waits[i] = ExpectedWait(i - 1))

\* C9 witness: the first attempt failed without a status code, withRetry
\* waited and invoked the operation a second time.
C9_Witness ==
    /\ Len(raised) >= 1
    /\ NoStatusFailure(raised[1])
    /\ raised[1].status = Absent
    /\ raised[1].statusCode = Absent
    /\ invocations = 2
    /\ Len(waits) >= 1

\* C10: when all maxRetries + 1 attempts fail, withRetry fails with the very
\* value the last attempt raised, whatever that value is.
C10_LastFailureUnchanged ==
    (policy.maxRetries >= 0 /\ rpc = "done" /\ Len(raised) = policy.maxRetries + 1) =>
        outcome = Threw(raised[Len(raised)])

(***************************************************************************)
(* Properties of the secret vault (SpecVault)                              *)
(***************************************************************************)
\* The vault object after the step
TheVaultNext == Vault(secrets', encryptionKey', isDestroyed', randomDraws')

\* The step is a completed store / delete call on an Active vault.
StoreStep ==
    /\ lastCall'.op = "store"
    /\ lastCall'.result = ReturnsVoid
    /\ pending' = pending
DeleteStep ==
    /\ lastCall'.op = "delete"
    /\ ~lastCall'.startedDestroyed
    /\ pending' = pending

\* What retrieve gives for key after the step, given what it gave before:
\* the value just stored under key, absent when key was just deleted, and
\* what it gave before in every other case.  asStored(value) is the text a
\* stored value is expected to come back as.
RetrieveAfterStep(key, asStored(_)) ==
    IF StoreStep /\ lastCall'.key = key THEN ReturnsString(asStored(lastCall'.value))
    ELSE IF DeleteStep /\ lastCall'.key = key THEN ReturnsNull
    ELSE retrieve(TheVault, key).result

Itself(str) == str

\* C11: on an Active vault, after any sequence of store and
\* delete calls, retrieve(k) returns exactly the value of the most recent
\* store(k, v) not followed by delete(k); a later store under k overwrites,
\* and stores or deletes under other keys change nothing for k.
C11_RetrieveMostRecentStore ==
    /\ \A key \in VaultKeys : ~isDestroyed => retrieve(TheVault, key).result = ReturnsNull
    /\ [][(~isDestroyed /\ ~isDestroyed') =>
            \A key \in VaultKeys :
                retrieve(TheVaultNext, key).result = RetrieveAfterStep(key, Itself)]_vars

\* The initialization vector and the plaintext bytes of a stored record
IvOf(stored) == FromHex(stored[1])
PlainOf(stored) == FromHex(stored[3]).plain

\* C12: every store call draws a fresh initialization vector: the record a
\* store call leaves differs, in its IV and in its ciphertext, from every
\* record the vault holds (the one it overwrites included) and its IV from
\* every random output drawn before, whatever value and key were stored.
C12_FreshIvPerStore ==
    [][StoreStep =>
        LET new == MapGet(secrets', lastCall'.key) IN
        /\ \A n \in 1 .. randomDraws : IvOf(new) # RandomBytes(n)
        /\ \A i \in 1 .. Len(secrets) :
            /\ secrets[i].value # new
            /\ IvOf(secrets[i].value) # IvOf(new)
            /\ secrets[i].value[3] # new[3]]_vars

\* Both keys hold the same plaintext, stored by two store calls.
C12_Witness ==
    /\ MapSize(secrets) = 2
    /\ PlainOf(secrets[1].value) = PlainOf(secrets[2].value)
    /\ lastCall.op = "store"
    /\ lastCall.result = ReturnsVoid

StartGuarded == {"store", "retrieve", "resolve"}

\* C13: after destroy(), every store, retrieve and resolve call fails with
\* the vault-destroyed error, for every key, value and reference (one with
\* no placeholder included), and leaves the vault as it was.
C13_DestroyedCallsFail ==
    /\ (lastCall.op \in StartGuarded /\ lastCall.startedDestroyed) =>
            lastCall.result = Throws(VaultDestroyedMessage)
    /\ isDestroyed =>
        LET failed == Did(TheVault, Throws(VaultDestroyedMessage), NoCipher) IN
        /\ \A key \in VaultKeys, value \in VaultValues : store(TheVault, key, value) = failed
        /\ \A key \in VaultKeys : retrieve(TheVault, key) = failed
        /\ \A reference \in References : resolve(TheVault, reference) = Settled(failed)

\* resolve of a reference without placeholder was called on the destroyed
\* vault and failed.
C13_Witness ==
    /\ isDestroyed
    /\ lastCall.op = "resolve"
    /\ lastCall.startedDestroyed
    /\ ~Match(lastCall.reference).found
    /\ lastCall.result = Throws(VaultDestroyedMessage)

\* C14: after destroy(), all subsequent operations fail: store, retrieve
\* and resolve, and also has, delete, listKeys and the status operation.
C14_AllOperationsFailAfterDestroy ==
    (lastCall.startedDestroyed
        /\ lastCall.op \in StartGuarded \cup {"has", "delete", "listKeys", "getStatus"}) =>
            lastCall.result.kind = "throw"

\* C15: the vault starts Active, destroy() is the only operation that
\* changes the state, and once Destroyed it stays Destroyed whatever is
\* called afterwards, a second destroy() included.
C15_StateMonotonic ==
    /\ ~isDestroyed
    /\ [][/\ isDestroyed => isDestroyed'
          /\ isDestroyed' # isDestroyed => (lastCall'.op = "destroy" /\ pending' = pending)]_vars

\* destroy() was called on a vault already destroyed.
C15_Witness ==
    /\ lastCall.op = "destroy"
    /\ lastCall.startedDestroyed
    /\ isDestroyed

\* C16: in every state after destroy() the vault holds no secrets (secret
\* count 0), its key material is all zeros, and no call made on it returns
\* a plaintext: retrieve and resolve return none, listKeys, has, delete and
\* the status report nothing stored.
C16_NothingLeftAfterDestroy ==
    /\ isDestroyed =>
        /\ MapSize(secrets) = 0
        /\ encryptionKey = ZeroBytes
        /\ getStatus(TheVault).result = ReturnsStatus(0, TRUE)
        /\ \A key \in VaultKeys :
            /\ retrieve(TheVault, key).result.kind # "string"
            /\ has(TheVault, key).result = ReturnsBoolean(FALSE)
            /\ delete(TheVault, key).result = ReturnsBoolean(FALSE)
        /\ \A reference \in References : ~resolve(TheVault, reference).suspended
                /\ resolve(TheVault, reference).did.result.kind # "string"
    /\ lastCall.startedDestroyed =>
        /\ lastCall.result.kind # "string"
        /\ lastCall.result.val = <<>>
        /\ lastCall.result.count = 0

\* The status was asked of a destroyed vault that had held secrets.
C16_Witness ==
    /\ isDestroyed
    /\ randomDraws > 2
    /\ lastCall.op = "getStatus"
    /\ lastCall.result = ReturnsStatus(0, TRUE)

\* Neither a completed call nor a suspended resolve call created its
\* cipher with zeroed key material.
NoZeroedKeyUse ==
    /\ lastCall.cipherKey # ZeroBytes
    /\ \A i \in 1 .. Len(pending) : pending[i].cipherKey # ZeroBytes

\* C17 (as stated): with destroy() called while store, retrieve or resolve
\* calls are in flight, every such call that passes its start after the
\* destroy fails with the vault-destroyed error, no call encrypts or
\* decrypts with the zeroed key, and no call returns a value after the
\* vault was destroyed.
C17_DestroyBarrier ==
    /\ (lastCall.op \in StartGuarded /\ lastCall.startedDestroyed) =>
            lastCall.result = Throws(VaultDestroyedMessage)
    /\ NoZeroedKeyUse
    /\ (lastCall.op \in StartGuarded /\ lastCall.endedDestroyed) =>
            lastCall.result.kind = "throw"

\* C17 (amended): every such call that passes its start after the destroy
\* fails with the vault-destroyed error and no call encrypts or decrypts
\* with the zeroed key; a resolve call that passed its start, and called
\* retrieve, before the destroy settles after it with what retrieve gave.
C17_DestroyBarrierAtStart ==
    /\ (lastCall.op \in StartGuarded /\ lastCall.startedDestroyed) =>
            lastCall.result = Throws(VaultDestroyedMessage)
    /\ NoZeroedKeyUse
    /\ (lastCall.op \in StartGuarded /\ lastCall.endedDestroyed
            /\ lastCall.result.kind # "throw") =>
        /\ lastCall.op = "resolve"
        /\ ~lastCall.startedDestroyed
        /\ lastCall.cipherKey = RandomBytes(1)

\* A resolve call suspended before the destroy settled after it with the
\* value it had decrypted.
C17_Witness ==
    /\ lastCall.op = "resolve"
    /\ ~lastCall.startedDestroyed
    /\ lastCall.endedDestroyed
    /\ lastCall.result.kind = "string"

\* C18: on an Active vault retrieve(k) returns the absent value, and does
\* not fail, exactly when no secret is stored under k; for a stored key it
\* returns a string.
C18_AbsentIffNotStored ==
    /\ ~isDestroyed =>
        \A key \in VaultKeys :
            IF MapHas(secrets, key)
            THEN retrieve(TheVault, key).result.kind = "string"
            ELSE retrieve(TheVault, key).result = ReturnsNull
    /\ (lastCall.op = "retrieve" /\ ~lastCall.startedDestroyed) =>
            IF MapHas(secrets, lastCall.key)
            THEN lastCall.result.kind = "string"
            ELSE lastCall.result = ReturnsNull

\* retrieve returned the empty string stored under a key (not absent), the
\* other key being absent.
C18_Witness ==
    /\ lastCall.op = "retrieve"
    /\ lastCall.result = ReturnsString(<<>>)
    /\ MapSize(secrets) = 1
    /\ \E key \in VaultKeys : retrieve(TheVault, key).result = ReturnsNull

\* What resolve settles with when nothing else runs between its await and
\* its resumption.
ResolveOutcome(v, reference) ==
    LET r == resolve(v, reference) IN
    IF r.suspended THEN resolveResumed(r.name, r.did.result) ELSE r.did.result

\* C19: on an Active vault, resolve of a reference containing the
\* placeholder {{secrets.<name>}} fails with the secret-not-found error if
\* and only if no secret is stored under <name>; with a secret stored under
\* <name>, whatever its value (the empty string included), it succeeds.
\* (<name> ranging over names of letters, digits and underscores.)
C19_NotFoundIffAbsent ==
    ~isDestroyed =>
        \A name \in {k \in VaultKeys : \A i \in 1 .. Len(k) : k[i] \in WordChars} :
            \A reference \in {Placeholder(name), <<"a", "=">> \o Placeholder(name) \o <<";">>} :
                IF MapHas(secrets, name)
                THEN ResolveOutcome(TheVault, reference).kind = "string"
                ELSE ResolveOutcome(TheVault, reference) = Throws(SecretNotFoundMessage(name))

\* C20: on an Active vault, resolve of a string with one placeholder for a
\* stored secret returns the string with the placeholder replaced by the
\* decrypted value (a non-empty one here), the text before and after
\* kept; resolve of a string without placeholder returns it unchanged.
C20_SubstitutesInPlace ==
    ~isDestroyed =>
        /\ ResolveOutcome(TheVault, <<"t", "x", "t">>) = ReturnsString(<<"t", "x", "t">>)
        /\ \A name \in {k \in VaultKeys : \A i \in 1 .. Len(k) : k[i] \in WordChars} :
            \A before \in {<<>>, <<"a", "=">>}, after \in {<<>>, <<";">>} :
                LET decrypted == retrieve(TheVault, name).result IN
                (decrypted.kind = "string" /\ decrypted.val # <<>>) =>
                    ResolveOutcome(TheVault, before \o Placeholder(name) \o after)
                        = ReturnsString(before \o decrypted.val \o after)

\* C21: for every key k that store accepts and that is stored (with a
\* non-empty value here), resolve("{{secrets.k}}") recognizes the
\* placeholder and yields the value stored under k, also for keys with
\* characters other than letters, digits and underscore.
C21_EveryStoredKeyResolves ==
    ~isDestroyed =>
        \A key \in VaultKeys :
            LET decrypted == retrieve(TheVault, key).result IN
            (decrypted.kind = "string" /\ decrypted.val # <<>>) =>
                ResolveOutcome(TheVault, Placeholder(key)) = ReturnsString(decrypted.val)

\* The names listKeys gives
ListedNames(v) == Range(listKeys(v).result.val)

\* C22: while the vault is Active, has, delete, listKeys and the status
\* never fail and agree: listKeys gives exactly the names (never a value)
\* of the keys stored and not since deleted, each once; the status secret
\* count is the number of those names; has(k) is true, and delete(k)
\* returns true, exactly when k is among them.
C22_IntrospectionAgrees ==
    /\ [](~isDestroyed =>
        /\ listKeys(TheVault).result.kind = "array"
        /\ ListedNames(TheVault) \subseteq VaultKeys
        /\ ListedNames(TheVault) = {k \in VaultKeys : retrieve(TheVault, k).result.kind = "string"}
        /\ getStatus(TheVault).result = ReturnsStatus(Cardinality(ListedNames(TheVault)), FALSE)
        /\ Len(listKeys(TheVault).result.val) = Cardinality(ListedNames(TheVault))
        /\ \A k \in VaultKeys :
            /\ has(TheVault, k).result = ReturnsBoolean(k \in ListedNames(TheVault))
            /\ delete(TheVault, k).result = ReturnsBoolean(k \in ListedNames(TheVault)))
    /\ [][(~isDestroyed /\ ~isDestroyed') =>
            ListedNames(TheVaultNext) =
                IF StoreStep THEN ListedNames(TheVault) \cup {lastCall'.key}
                ELSE IF DeleteStep THEN ListedNames(TheVault) \ {lastCall'.key}
                ELSE ListedNames(TheVault)]_vars

\* delete returned true for a stored key, the other key staying listed.
C22_Witness ==
    /\ ~isDestroyed
    /\ lastCall.op = "delete"
    /\ lastCall.result = ReturnsBoolean(TRUE)
    /\ ListedNames(TheVault) = VaultKeys \ {lastCall.key}
    /\ getStatus(TheVault).result = ReturnsStatus(1, FALSE)

(***************************************************************************)
(* Properties of the readiness poller (SpecPoll, SpecPollFair)             *)
(***************************************************************************)
Ready == FetchedStatus("ACTIVE_HEALTHY")
Pending == FetchedStatus("COMING_UP")
ResourceFailed == FetchedStatus("INIT_FAILED")
\* What the last fetch that settled gave (a fetch has settled)
LastFetched == recent[Len(recent)]

\* C23: the poller returns successfully at the first poll whose fetched
\* status is the terminal-success status and polls no more: a ready status
\* is only ever the last one fetched, the function has then returned, and
\* it returns in no other case; so for Pending, Pending, Active it returns
\* after exactly the third poll.
C23_ReturnsAtFirstReady ==
    /\ \A i \in 1 .. Len(recent) : recent[i] = Ready => i = Len(recent)
    /\ (recent # <<>> /\ LastFetched = Ready) =>
            (pollPc = "done" /\ pollOutcome = PollReturned)
    /\ pollOutcome = PollReturned => (recent # <<>> /\ LastFetched = Ready)

\* Pending, Pending, Active: returned after three polls.
C23_Witness ==
    /\ recent = <<Pending, Pending, Ready>>
    /\ polls = 3
    /\ pollPc = "done"
    /\ pollOutcome = PollReturned

\* C24: if no poll observes a terminal state before maxWaitTime elapses,
\* the poller stops polling and fails with the timeout error, which names
\* the duration; no fetch is issued once maxWaitTime has elapsed, the
\* function settles only by returning at a ready status or by that error,
\* and, every fetch completing, it always settles.
C24_TimesOutAndTerminates ==
    /\ [](pollPc = "fetching" => pollStart - startTime < maxWaitTime)
    /\ [](pollOutcome.kind = "threw" =>
            /\ pollPc = "done"
            /\ clock - startTime >= maxWaitTime
            /\ pollOutcome.error = "did not become ready within"
            /\ pollOutcome.seconds * 1000 = maxWaitTime
            /\ \A i \in 1 .. Len(recent) : recent[i] # Ready)
    /\ [](pollPc = "done" => pollOutcome.kind \in {"returned", "threw"})
    /\ <>(pollPc = "done")

\* maxWaitTime = 2 * pollInterval, two polls without a terminal status,
\* then the timeout error.
C24_Witness ==
    /\ maxWaitTime = 2 * PollIntervalMs
    /\ polls = 2
    /\ recent = <<Pending, Pending>>
    /\ pollPc = "done"
    /\ pollOutcome.kind = "threw"

\* C25: when a poll fetches a status that is a terminal failure of the
\* resource, the poller stops at that poll and fails with the
\* resource-failed error; it does not go on polling to the deadline.
C25_StopsAtResourceFailure ==
    (recent # <<>> /\ LastFetched = ResourceFailed) =>
        /\ pollPc = "done"
        /\ pollOutcome.kind = "threw"
        /\ pollOutcome.error # "did not become ready within"

\* C26: a status fetch that fails (rejection or non-OK response) does not
\* abort the poller: the failure is logged and the poller waits for the
\* next interval, settling later only by a ready status or the deadline.
C26_FetchFailureLoggedAndTolerated ==
    (recent # <<>> /\ LastFetched \in {FetchedNotOk, FetchRaised}) =>
        /\ pollPc = "done" => pollOutcome = TimeoutError(maxWaitTime)
        /\ pollPc = "sleeping" => pollLog # <<>>

\* C27: the status fetch is invoked no more often than the poll interval:
\* a fetch after the first is issued at least pollInterval after the one
\* before it settled, whatever that one gave.
C27_AtMostOncePerInterval ==
    (pollPc = "fetching" /\ polls > 1) => pollStart - lastPollEnd >= PollIntervalMs

\* The third fetch is in flight after a non-OK response and a rejection.
C27_Witness ==
    /\ pollPc = "fetching"
    /\ polls = 3
    /\ Len(recent) = 2
    /\ recent[1] = FetchedNotOk
    /\ recent[2] = FetchRaised
    /\ pollStart - lastPollEnd >= PollIntervalMs

(***************************************************************************)
(* Claims about the server processes: output, startup, listing             *)
(***************************************************************************)
\* C28: no result envelope returned by a tool call carries the value of a
\* credential: the bearer credential, a database password, a secret key or
\* a client secret handled by the call.
C28_NoCredentialInOutput ==
    lastResp.kind = "content" =>
        UNION {CredentialIn(f) : f \in lastResp.keys} = {}

\* C29: a process started without its bearer credential in the environment
\* exits with a non-zero code before connecting, and so never answers a
\* list-tools or call-tool request; requests are answered in the serving
\* state only, and a serving process holds a non-empty credential, the one
\* of its environment.
C29_NoServingWithoutCredential ==
    /\ environment.token = Undefined =>
          /\ phase \in {"starting", "exited"}
          /\ phase = "exited" => exitCode # Absent /\ exitCode # 0
          /\ lastResp = NoResponse
          /\ lastList = NoListing
    /\ (lastResp # NoResponse \/ lastList # NoListing) => phase = "serving"
    /\ phase = "serving" =>
          /\ inst.accessToken \notin {Undefined, ""}
          /\ inst.accessToken = environment.token

\* A process started without the credential has exited with code 1, no
\* request answered.
C29_Witness ==
    /\ environment.token = Undefined
    /\ phase = "exited"
    /\ exitCode = 1
    /\ lastResp = NoResponse
    /\ lastList = NoListing

\* The names of a returned listing
ListedNames30(listing) == {listing[i].name : i \in 1 .. Len(listing)}

\* Whether the last call was given to a handler by the switch
Routed == lastHandler.error # UnknownToolError(lastReq.name)

\* C30: the tool listing and the dispatch of a server agree and are
\* constant: once a listing was returned every later listing is the same
\* sequence of definitions, whatever was called in between; a called name
\* is routed to a handler exactly if the listing holds it, and a name the
\* listing does not hold gets the unknown-tool Failure envelope.
C30_ListingAndDispatchAgree ==
    /\ [](lastList # NoListing /\ lastReq # NoRequest =>
            /\ Routed <=> lastReq.name \in ListedNames30(lastList)
            /\ lastReq.name \notin ListedNames30(lastList) =>
                  lastResp = FailureResponse("Unknown tool: " \o lastReq.name))
    /\ [][lastList # NoListing => lastList' = lastList]_vars

\* A listing was returned and a call of push_files was routed on the GitHub
\* server, after an earlier call that failed.
C30_Witness ==
    /\ server = "github"
    /\ lastList # NoListing
    /\ Len(lastList) = 3
    /\ lastList[3].name = "push_files"
    /\ lastReq.name = "push_files"
    /\ Routed
    /\ failedEarlier

(***************************************************************************)
(* Claims about one create_project call (SpecCreate)                       *)
(***************************************************************************)
\* C31: once withRetry or the readiness poller has settled (returned or
\* thrown), the wrapped fetch is not invoked again for that call and no
\* timer of it is pending; after the first attempt that got an OK response
\* withRetry makes no further attempt.
C31_NoWorkOutlivesCall ==
    /\ [](ResponseOk(lastHttp) => rpc = "done" /\ timer = NoTimer)
    /\ [](outcome # NoOutcome => rpc = "done" /\ timer = NoTimer)
    /\ [][outcome # NoOutcome => (invocations' = invocations \/ outcome' = NoOutcome)]_vars
    /\ [](pollOutcome # NoPollOutcome => pollPc = "done")
    /\ [][pollOutcome # NoPollOutcome => pollPc' = "done" /\ polls' <= polls]_vars

\* The keys fetch returned at its third attempt, after the poller returned.
C31_Witness ==
    /\ cpPc = "keys"
    /\ pollOutcome = PollReturned
    /\ pollPc = "done"
    /\ outcome.kind = "returned"
    /\ invocations = 3
    /\ waits = <<1000, 2000>>
    /\ timer = NoTimer

TransientStatuses == {429, 502, 503, 504}

\* C32: with the default policy, a response that is not OK is retried
\* exactly if its status is 429, 502, 503 or 504 and attempts remain; a
\* response with any other status is raised at once with the status
\* attached, and an OK response is returned without retry.  (While the
\* body of a response that is not OK is being read nothing is decided.)
C32_RetriesTransientStatusesOnly ==
    lastHttp.kind = "response" =>
        IF ResponseOk(lastHttp)
        THEN rpc = "done" /\ outcome.kind = "returned"
        ELSE IF rpc = "body"
        THEN outcome = NoOutcome /\ timer = NoTimer
        ELSE IF lastHttp.status \in TransientStatuses /\ rpc # "done"
        THEN attempt <= 3 /\ outcome = NoOutcome
        ELSE /\ rpc = "done"
             /\ lastHttp.status \in TransientStatuses => attempt = 3
             /\ outcome.kind = "threw"
             /\ outcome.error.status = lastHttp.status

\* C33: within one create_project call the vendor creates at most one
\* project, however the creation requests and their responses fare.
C33_AtMostOneProject == projects <= 1

CallDone == cpPc = "done"

OrgConfigured == TruthyString(inst.organizationId)

\* Whether p is a prefix of q
IsPrefix(p, q) == Len(p) <= Len(q) /\ p = SubSeq(q, 1, Len(p))

StepOrder ==
    IF OrgConfigured THEN <<"create", "wait", "keys">>
    ELSE <<"orgs", "create", "wait", "keys">>

\* C34: the steps of create_project come in the order organization lookup
\* (only without a configured organization id), creation, readiness wait,
\* keys fetch; a Success envelope is returned only after a creation that
\* succeeded and a poll that saw ACTIVE_HEALTHY; when the readiness wait
\* times out the call returns a Failure, the project stays created and no
\* request follows the wait.
C34_OrderedStepsAndNoRollback ==
    /\ IsPrefix(cpTrace, StepOrder)
    /\ (CallDone /\ ~IsFailure(lastResp)) =>
          /\ cpTrace = StepOrder
          /\ projects >= 1
          /\ pollOutcome = PollReturned
    /\ (CallDone /\ pollOutcome.kind = "threw") =>
          /\ FailureEnvelope(lastResp)
          /\ lastResp.error = "did not become ready within"
          /\ projects >= 1
          /\ cpTrace[Len(cpTrace)] = "wait"

\* The readiness wait timed out after the lookup and the creation.
C34_Witness ==
    /\ CallDone
    /\ pollOutcome = TimeoutError(DefaultMaxWaitTime)
    /\ FailureEnvelope(lastResp)
    /\ projects = 1
    /\ cpTrace = <<"orgs", "create", "wait">>

ShortPassword ==
    /\ Has(lastReq.args, "db_password")
    /\ Len(lastReq.args.val["db_password"]) < 12

\* C35: with a database password shorter than 12 characters create_project
\* returns a Failure and issues no vendor request: no lookup, no creation,
\* no poll; nothing is created.
C35_ShortPasswordNoRequest ==
    ShortPassword =>
        /\ cpPc \in {"validate", "done"}
        /\ cpTrace = <<>>
        /\ projects = 0
        /\ invocations = 0
        /\ polls = 0
        /\ pollPc = "done"
        /\ CallDone =>
              /\ FailureEnvelope(lastResp)
              /\ lastResp.error = "Database password must be at least 12 characters"
              /\ ~lastHandler.vendor

C35_Witness ==
    /\ ShortPassword
    /\ CallDone
    /\ FailureEnvelope(lastResp)
    /\ cpTrace = <<>>

\* The call ended in or after the keys fetch.
KeysStepOver == CallDone /\ Len(cpTrace) > 0 /\ cpTrace[Len(cpTrace)] = "keys"

\* The keys fetch failed: withRetry threw (at once or with its retries
\* exhausted), the body of the response could not be read, or what was
\* read is no list of keys.  (A list that was read and holds a broken
\* entry is no failure of the fetch: the keys found before that entry stay.)
KeysFetchFailed ==
    \/ outcome.kind = "threw"
    \/ keysRead.kind \in {"rejects", "no_array", "null"}

\* C36: once the project is ready, a keys fetch that fails, its retries
\* exhausted included, does not fail the call: the envelope is a Success
\* and the two keys are empty.
C36_KeysFailureTolerated ==
    KeysStepOver =>
        /\ lastResp = SuccessResponse(ResultFields(projectId))
        /\ lastHandler.kind = "return"
        /\ KeysFetchFailed => cpKeys = NoKeys

\* The keys fetch failed four times with transient statuses.
C36_Witness ==
    /\ CallDone
    /\ cpTrace = <<"create", "wait", "keys">>
    /\ outcome.kind = "threw"
    /\ invocations = 4
    /\ lastHttp = HttpResponse(503)
    /\ KeysFetchFailed
    /\ cpKeys = NoKeys
    /\ lastResp = SuccessResponse(CreateProjectFields)

(***************************************************************************)
(* Claims about configure_env_vars (SpecDispatch)                          *)
(***************************************************************************)
\* The last call was configure_env_vars with an env_vars object, on the
\* Netlify server.
EnvVarsCall ==
    /\ server = "netlify"
    /\ lastReq.name = "configure_env_vars"
    /\ Has(lastReq.args, "env_vars")
    /\ lastResp # NoResponse

\* C37: configure_env_vars goes through every entry of env_vars once: the
\* entries set and the entries that failed add up to the number of
\* entries; the call is a Failure exactly when some entry failed and none
\* was set, and a Success otherwise, with partial success and with an
\* empty env_vars too.
C37_EveryEntryCountedOnce ==
    EnvVarsCall =>
        LET n == Len(lastReq.args.val["env_vars"]) IN
        /\ lastHandler.set + lastHandler.errors = n
        /\ IF n > 0 /\ lastHandler.set = 0
           THEN /\ FailureEnvelope(lastResp)
                /\ lastResp.error = "Failed to set environment variables"
           ELSE lastResp = SuccessResponse({"vars_set", "message"})

(***************************************************************************)
(* Claims about auto-launch-claude.sh (SpecLaunch)                         *)
(***************************************************************************)
\* C38: over the attachments of one environment the provisioning run is
\* started at most once; the flag is set before the launch (an attachment
\* that launches or has launched finds the flag set), and an attachment
\* that exits for want of an API key leaves the flag as it was.
C38_LaunchesAtMostOnce ==
    /\ launches <= 1
    /\ \A i \in Attachments : attachPc[i].at \in {"launch", "running"} => flagFile
    /\ launches = 0 /\ (\A i \in Attachments : attachPc[i].at \notin {"launch", "running"})
          => ~flagFile

====
